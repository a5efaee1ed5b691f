---------------------------- MODULE AccessProofs ----------------------------
(***************************************************************************)
(* Theorems about what hangs on one account: a change of the phone number, *)
(* a client's stations, an administrator's sign-in by code, and sessions.  *)
(***************************************************************************)
EXTENDS LoginCodes, PhoneChange, StationRegister, SequenceTheorems, WellFoundedInduction, FiniteSetTheorems,
        TLAPS

(***************************************************************************)
(* PhoneChange.  A code is drawn once, for one number, and every call and  *)
(* document that carries the code names that number: so a confirmation     *)
(* that holds a superseded record still writes what was texted.            *)
(***************************************************************************)
AskRecord ==
    [at: {"idle", "supersede", "store", "send", "undo"}, user: Holders \cup {NoPhone},
     number: Phones \cup {NoPhone}, code: PhoneCodes \cup {NoPhone}]

AnswerRecord ==
    [at: {"idle", "count", "consume", "write"}, user: Holders \cup {NoPhone},
     number: Phones \cup {NoPhone}, code: PhoneCodes \cup {NoPhone}]

PendingRecord(d) ==
    d \in [user: Holders, number: Phones, code: PhoneCodes, attempts: {d.attempts}, createdAt: {d.createdAt}]

PhoneTyped ==
    /\ phone \in [Holders -> Phones] /\ provedBy \in [Holders -> PhoneCodes \cup {NoPhone}]
    /\ textedTo \in [PhoneCodes -> Phones \cup {NoPhone}] /\ drawn \subseteq PhoneCodes
    /\ asking \in [Requesters -> AskRecord] /\ answering \in [Confirmers -> AnswerRecord]
    /\ \A q \in Requesters : asking[q].at # "idle" =>
          asking[q].user \in Holders /\ asking[q].number \in Phones /\ asking[q].code \in PhoneCodes
    /\ \A k \in Confirmers : answering[k].at # "idle" =>
          answering[k].user \in Holders /\ answering[k].number \in Phones /\ answering[k].code \in PhoneCodes
    /\ \A d \in pending : PendingRecord(d)

\* Something says that code c is for number n.
AskedFor(c, n) == \E q \in Requesters : asking[q].at # "idle" /\ asking[q].code = c /\ asking[q].number = n
PendingFor(c, n) == \E d \in pending : d.code = c /\ d.number = n
AnsweredFor(c, n) == \E k \in Confirmers : answering[k].at # "idle" /\ answering[k].code = c /\ answering[k].number = n
TextedFor(c, n) == n # NoPhone /\ textedTo[c] = n
Claims(c, n) == AskedFor(c, n) \/ PendingFor(c, n) \/ AnsweredFor(c, n) \/ TextedFor(c, n)

\* Nothing claims a code not drawn, and no two claims disagree.
ClaimsAgree ==
    \A c \in PhoneCodes : \A n, m \in Phones :
        Claims(c, n) => c \in drawn /\ (Claims(c, m) => n = m)

\* A confirmation that found the code right holds a code that was texted.
RightMeansTexted ==
    \A k \in Confirmers : answering[k].at \in {"consume", "write"} => textedTo[answering[k].code] # NoPhone

PhoneInv == PhoneTyped /\ ClaimsAgree /\ RightMeansTexted /\ NumberWasTexted

\* The invariant is kept by a step that makes no claim of its own, proves no number and
\* texts nothing.
LEMMA NoNewClaim ==
    ASSUME PhoneInv, PhoneTyped', drawn' = drawn,
           \A c \in PhoneCodes, n \in Phones : Claims(c, n)' => Claims(c, n)
    PROVE  ClaimsAgree'
BY DEF PhoneInv, ClaimsAgree

LEMMA PhoneQuiet ==
    ASSUME PhoneInv, PhoneTyped', UNCHANGED <<phone, textedTo, drawn, provedBy>>,
           \A c \in PhoneCodes, n \in Phones : AskedFor(c, n)' => Claims(c, n),
           \A c \in PhoneCodes, n \in Phones : PendingFor(c, n)' => Claims(c, n),
           \A c \in PhoneCodes, n \in Phones : AnsweredFor(c, n)' => Claims(c, n),
           RightMeansTexted'
    PROVE  PhoneInv'
<1>1. \A c \in PhoneCodes, n \in Phones : TextedFor(c, n)' => Claims(c, n)
  BY DEF TextedFor, Claims
<1>2. \A c \in PhoneCodes, n \in Phones : Claims(c, n)' => Claims(c, n)
  BY <1>1, Zenon DEF Claims
<1>3. ClaimsAgree'
  BY <1>2, NoNewClaim
<1>4. NumberWasTexted'
  BY DEF PhoneInv, NumberWasTexted
<1> QED BY <1>3, <1>4 DEF PhoneInv

\* A call taken one step further carries what it carried.
LEMMA AskMoves ==
    ASSUME PhoneTyped, NEW q \in Requesters, NEW at \in {"store", "send", "undo"}, asking[q].at # "idle",
           asking' = [asking EXCEPT ![q].at = at]
    PROVE  /\ asking' \in [Requesters -> AskRecord]
           /\ \A r \in Requesters : /\ asking'[r].user = asking[r].user /\ asking'[r].number = asking[r].number
                                    /\ asking'[r].code = asking[r].code
                                    /\ asking'[r].at # "idle" => asking[r].at # "idle"
<1> DEFINE rec == [asking[q] EXCEPT !.at = at]
<1>1. asking' = [asking EXCEPT ![q] = rec] /\ asking \in [Requesters -> AskRecord]
  BY DEF PhoneTyped
<1>2. rec \in AskRecord /\ rec.user = asking[q].user /\ rec.number = asking[q].number /\ rec.code = asking[q].code
  BY <1>1 DEF AskRecord
<1> HIDE DEF rec
<1> QED BY <1>1, <1>2

LEMMA AskEnds ==
    ASSUME PhoneTyped, NEW q \in Requesters, asking' = [asking EXCEPT ![q] = NoAsking]
    PROVE  /\ asking' \in [Requesters -> AskRecord]
           /\ \A r \in Requesters : asking'[r].at # "idle" => asking'[r] = asking[r]
<1>1. NoAsking \in AskRecord /\ NoAsking.at = "idle"
  BY DEF NoAsking, AskRecord
<1> HIDE DEF NoAsking
<1> QED BY <1>1 DEF PhoneTyped

LEMMA AnswerEnds ==
    ASSUME PhoneTyped, NEW k \in Confirmers, answering' = [answering EXCEPT ![k] = NoAnswer]
    PROVE  /\ answering' \in [Confirmers -> AnswerRecord]
           /\ \A r \in Confirmers : answering'[r].at # "idle" => answering'[r] = answering[r]
<1>1. NoAnswer \in AnswerRecord /\ NoAnswer.at = "idle"
  BY DEF NoAnswer, AnswerRecord
<1> HIDE DEF NoAnswer
<1> QED BY <1>1 DEF PhoneTyped

\* Requesting: the code is fresh, so nothing else speaks of it.
LEMMA RequestKeeps ==
    ASSUME PhoneInv, NEW q \in Requesters, NEW u \in Holders, NEW n \in Phones, RequestVerification(q, u, n)
    PROVE  PhoneInv'
<1>1. PICK c \in PhoneCodes \ drawn :
          /\ drawn' = drawn \cup {c}
          /\ asking' = [asking EXCEPT ![q] = [at |-> "supersede", user |-> u, number |-> n, code |-> c]]
  BY Zenon DEF RequestVerification
<1> DEFINE rec == [at |-> "supersede", user |-> u, number |-> n, code |-> c]
<1>2. /\ asking' = [asking EXCEPT ![q] = rec] /\ asking \in [Requesters -> AskRecord]
      /\ UNCHANGED <<phone, pending, answering, textedTo, provedBy>>
  BY <1>1, Zenon DEF RequestVerification, PhoneInv, PhoneTyped
<1>3. rec \in AskRecord /\ rec.user = u /\ rec.number = n /\ rec.code = c
  BY DEF AskRecord
<1> HIDE DEF rec
<1>4. asking' \in [Requesters -> AskRecord] /\ asking'[q] = rec /\ \A r \in Requesters : r # q => asking'[r] = asking[r]
  BY <1>2, <1>3
<1>5. PhoneTyped'
  BY <1>1, <1>2, <1>3, <1>4 DEF PhoneInv, PhoneTyped
<1>6. \A d \in PhoneCodes, m \in Phones : Claims(d, m)' => Claims(d, m) \/ (d = c /\ m = n)
  <2>1. \A d \in PhoneCodes, m \in Phones : AskedFor(d, m)' => AskedFor(d, m) \/ (d = c /\ m = n)
    BY <1>3, <1>4 DEF AskedFor
  <2>2. \A d \in PhoneCodes, m \in Phones :
            /\ PendingFor(d, m)' => PendingFor(d, m)
            /\ AnsweredFor(d, m)' => AnsweredFor(d, m)
            /\ TextedFor(d, m)' => TextedFor(d, m)
    BY <1>2 DEF PendingFor, AnsweredFor, TextedFor
  <2> QED BY <2>1, <2>2, Zenon DEF Claims
<1>7. \A m \in Phones : ~Claims(c, m)
  BY DEF PhoneInv, ClaimsAgree
<1>8. ClaimsAgree'
  <2>1. ASSUME NEW d \in PhoneCodes, NEW m \in Phones, NEW l \in Phones, Claims(d, m)'
        PROVE  d \in drawn' /\ (Claims(d, l)' => m = l)
    <3>1. CASE d = c
      BY <1>1, <1>6, <1>7, <2>1, <3>1
    <3>2. CASE d # c
      <4>1. Claims(d, m) /\ (Claims(d, l)' => Claims(d, l))
        BY <1>6, <2>1, <3>2
      <4> QED BY <1>1, <4>1 DEF PhoneInv, ClaimsAgree
    <3> QED BY <3>1, <3>2
  <2> QED BY <2>1, Zenon DEF ClaimsAgree
<1>9. RightMeansTexted' /\ NumberWasTexted'
  BY <1>2 DEF PhoneInv, RightMeansTexted, NumberWasTexted
<1> QED BY <1>5, <1>8, <1>9 DEF PhoneInv

\* The other steps of a request.
LEMMA RequestMoves ==
    ASSUME PhoneInv, NEW q \in Requesters,
           SupersedePending(q) \/ StoreVerification(q) \/ UndoRequest(q)
    PROVE  PhoneInv'
<1>1. UNCHANGED <<phone, answering, textedTo, drawn, provedBy>> /\ PhoneTyped /\ asking[q].at # "idle"
  BY DEF SupersedePending, StoreVerification, UndoRequest, PhoneInv
<1>2. /\ asking' \in [Requesters -> AskRecord]
      /\ \A r \in Requesters : asking'[r].at # "idle" =>
            /\ asking'[r].user = asking[r].user /\ asking'[r].number = asking[r].number
            /\ asking'[r].code = asking[r].code /\ asking[r].at # "idle"
  <2>1. CASE SupersedePending(q)
    <3>1. asking' = [asking EXCEPT ![q].at = "store"]
      BY <2>1, Zenon DEF SupersedePending
    <3> QED BY <1>1, <3>1, AskMoves
  <2>2. CASE StoreVerification(q)
    <3>1. asking' = [asking EXCEPT ![q].at = "send"]
      BY <2>2, Zenon DEF StoreVerification
    <3> QED BY <1>1, <3>1, AskMoves
  <2>3. CASE UndoRequest(q)
    <3>1. asking' = [asking EXCEPT ![q] = NoAsking]
      BY <2>3, Zenon DEF UndoRequest
    <3> QED BY <1>1, <3>1, AskEnds
  <2> QED BY <2>1, <2>2, <2>3
<1>3. \A d \in pending' : \/ d \in pending
                          \/ PendingRecord(d) /\ d.code = asking[q].code /\ d.number = asking[q].number
  <2>1. CASE SupersedePending(q)
    BY <2>1 DEF SupersedePending
  <2>2. CASE StoreVerification(q)
    <3> DEFINE d == PhoneVerification(asking[q].user, asking[q].number, asking[q].code, Now)
    <3>1. pending' = pending \cup {d}
      BY <2>2, Zenon DEF StoreVerification
    <3>2. asking[q].user \in Holders /\ asking[q].number \in Phones /\ asking[q].code \in PhoneCodes
      BY <1>1 DEF PhoneTyped
    <3>3. PendingRecord(d) /\ d.code = asking[q].code /\ d.number = asking[q].number
      BY <3>2 DEF PendingRecord, PhoneVerification
    <3> HIDE DEF d
    <3> QED BY <3>1, <3>3
  <2>3. CASE UndoRequest(q)
    BY <2>3 DEF UndoRequest, Without
  <2> QED BY <2>1, <2>2, <2>3
<1>4. PhoneTyped'
  BY <1>1, <1>2, <1>3 DEF PhoneTyped
<1>5. \A c \in PhoneCodes, n \in Phones : AskedFor(c, n)' => Claims(c, n)
  BY <1>2 DEF AskedFor, Claims
<1>6. \A c \in PhoneCodes, n \in Phones : PendingFor(c, n)' => Claims(c, n)
  BY <1>1, <1>3 DEF PendingFor, AskedFor, Claims
<1>7. \A c \in PhoneCodes, n \in Phones : AnsweredFor(c, n)' => Claims(c, n)
  BY <1>1 DEF AnsweredFor, Claims
<1>8. RightMeansTexted'
  BY <1>1 DEF PhoneInv, RightMeansTexted
<1> QED BY <1>1, <1>4, <1>5, <1>6, <1>7, <1>8, PhoneQuiet

\* Sending: a code is texted to the number it was drawn for, so a number already
\* proved by it is that number.
LEMMA SendKeeps ==
    ASSUME PhoneInv, NEW q \in Requesters, SendCode(q) PROVE PhoneInv'
<1> DEFINE c == asking[q].code
           n == asking[q].number
<1>1. /\ asking[q].at = "send" /\ UNCHANGED <<phone, pending, answering, drawn, provedBy>> /\ PhoneTyped
      /\ textedTo' = textedTo \/ textedTo' = [textedTo EXCEPT ![c] = n]
  BY Zenon DEF SendCode, PhoneInv
<1>2. /\ asking' \in [Requesters -> AskRecord]
      /\ \A r \in Requesters : asking'[r].at # "idle" =>
            /\ asking'[r].user = asking[r].user /\ asking'[r].number = asking[r].number
            /\ asking'[r].code = asking[r].code /\ asking[r].at # "idle"
  <2>1. asking' = [asking EXCEPT ![q] = NoAsking] \/ asking' = [asking EXCEPT ![q].at = "undo"]
    BY DEF SendCode
  <2> QED BY <1>1, <2>1, AskMoves, AskEnds
<1>3. c \in PhoneCodes /\ n \in Phones /\ n # NoPhone /\ Claims(c, n)
  <2>1. c \in PhoneCodes /\ n \in Phones /\ n # NoPhone
    BY <1>1, PhoneAssumption DEF PhoneTyped
  <2>2. AskedFor(c, n)
    BY <1>1 DEF AskedFor
  <2> QED BY <2>1, <2>2 DEF Claims
<1> HIDE DEF c, n
<1>4. \A d \in PhoneCodes : textedTo'[d] = textedTo[d] \/ (d = c /\ textedTo'[d] = n)
  BY <1>1, <1>3 DEF PhoneTyped
<1>5. PhoneTyped'
  BY <1>1, <1>2, <1>3 DEF PhoneTyped
<1>6. \A d \in PhoneCodes, m \in Phones : Claims(d, m)' => Claims(d, m)
  <2>1. \A d \in PhoneCodes, m \in Phones : AskedFor(d, m)' => AskedFor(d, m)
    BY <1>2 DEF AskedFor
  <2>2. \A d \in PhoneCodes, m \in Phones :
            (PendingFor(d, m)' => PendingFor(d, m)) /\ (AnsweredFor(d, m)' => AnsweredFor(d, m))
    BY <1>1 DEF PendingFor, AnsweredFor
  <2>3. \A d \in PhoneCodes, m \in Phones : TextedFor(d, m)' => TextedFor(d, m) \/ (d = c /\ m = n)
    BY <1>4 DEF TextedFor
  <2> QED BY <1>3, <2>1, <2>2, <2>3, Zenon DEF Claims
<1>7. ClaimsAgree'
  BY <1>1, <1>5, <1>6, NoNewClaim
<1>8. RightMeansTexted'
  BY <1>1, <1>3, <1>4 DEF PhoneInv, RightMeansTexted, PhoneTyped
<1>9. NumberWasTexted'
  <2>1. ASSUME NEW u \in Holders, provedBy[u] \in PhoneCodes PROVE textedTo'[provedBy[u]] = phone[u]
    <3>1. textedTo[provedBy[u]] = phone[u] /\ phone[u] \in Phones /\ phone[u] # NoPhone
      BY <1>1, <2>1, PhoneAssumption DEF PhoneInv, NumberWasTexted, PhoneTyped
    <3>2. CASE provedBy[u] = c
      <4>1. Claims(c, phone[u])
        BY <3>1, <3>2 DEF Claims, TextedFor
      <4>2. phone[u] = n
        BY <1>3, <3>1, <4>1 DEF PhoneInv, ClaimsAgree
      <4> QED BY <1>4, <2>1, <3>1, <4>2
    <3>3. CASE provedBy[u] # c
      BY <1>4, <2>1, <3>1, <3>3
    <3> QED BY <3>2, <3>3
  <2> QED BY <1>1, <2>1 DEF NumberWasTexted
<1> QED BY <1>5, <1>7, <1>8, <1>9 DEF PhoneInv

\* Confirming, up to the write.
LEMMA ConfirmKeeps ==
    ASSUME PhoneInv, NEW k \in Confirmers, NEW u \in Holders, NEW c \in PhoneCodes \cup {NoPhone}, Confirm(k, u, c)
    PROVE  PhoneInv'
<1>1. PICK d \in NewestPending(u) :
          answering' = [answering EXCEPT ![k] = [at |-> IF d.code = c THEN "consume" ELSE "count",
                                                 user |-> u, number |-> d.number, code |-> d.code]]
  BY Zenon DEF Confirm
<1> DEFINE rec == [at |-> IF d.code = c THEN "consume" ELSE "count", user |-> u, number |-> d.number, code |-> d.code]
<1>2. /\ answering' = [answering EXCEPT ![k] = rec] /\ answering \in [Confirmers -> AnswerRecord] /\ PhoneTyped
      /\ UNCHANGED <<phone, pending, asking, textedTo, drawn, provedBy>>
  BY <1>1, Zenon DEF Confirm, PhoneInv, PhoneTyped
<1>3. d \in pending /\ d.number \in Phones /\ d.code \in PhoneCodes
  BY <1>2 DEF NewestPending, PhoneTyped, PendingRecord
<1>4. c = NoPhone \/ textedTo[c] # NoPhone
  BY DEF Confirm
<1>5. /\ rec \in AnswerRecord /\ rec.user = u /\ rec.number = d.number /\ rec.code = d.code
      /\ rec.at \in {"consume", "count"} /\ (rec.at = "consume" => textedTo[rec.code] # NoPhone)
  <2>1. NoPhone \notin PhoneCodes
    BY PhoneAssumption
  <2> QED BY <1>3, <1>4, <2>1 DEF AnswerRecord
<1> HIDE DEF rec
<1>6. /\ answering' \in [Confirmers -> AnswerRecord] /\ answering'[k] = rec
      /\ \A r \in Confirmers : r # k => answering'[r] = answering[r]
  BY <1>2, <1>5
<1>7. PhoneTyped'
  BY <1>2, <1>3, <1>5, <1>6 DEF PhoneTyped
<1>8. \A e \in PhoneCodes, n \in Phones : AnsweredFor(e, n)' => Claims(e, n)
  BY <1>3, <1>5, <1>6 DEF AnsweredFor, PendingFor, Claims
<1>9. \A e \in PhoneCodes, n \in Phones : AskedFor(e, n)' => Claims(e, n)
  BY <1>2 DEF AskedFor, Claims
<1>10. \A e \in PhoneCodes, n \in Phones : PendingFor(e, n)' => Claims(e, n)
  BY <1>2 DEF PendingFor, Claims
<1>11. RightMeansTexted'
  BY <1>2, <1>5, <1>6 DEF PhoneInv, RightMeansTexted
<1> QED BY <1>2, <1>7, <1>8, <1>9, <1>10, <1>11, PhoneQuiet

\* A wrong code changes the attempts of its record and nothing that is claimed.
LEMMA CountKeeps ==
    ASSUME PhoneInv, NEW k \in Confirmers, CountWrongCode(k) PROVE PhoneInv'
<1> DEFINE counted(d) == IF d.code = answering[k].code /\ d.attempts < PhoneAttempts
                         THEN [d EXCEPT !.attempts = @ + 1] ELSE d
<1>1. /\ UNCHANGED <<phone, asking, textedTo, drawn, provedBy>> /\ PhoneTyped
      /\ pending' = {counted(d) : d \in pending}
      /\ answering' = [answering EXCEPT ![k] = NoAnswer]
  BY Zenon DEF CountWrongCode, PhoneInv
<1>2. \A d \in pending : /\ PendingRecord(counted(d))
                         /\ counted(d).code = d.code /\ counted(d).number = d.number
  <2>1. ASSUME NEW d \in pending PROVE PendingRecord(counted(d)) /\ counted(d).code = d.code /\ counted(d).number = d.number
    <3>1. PendingRecord(d)
      BY <1>1 DEF PhoneTyped
    <3>2. LET x == [d EXCEPT !.attempts = @ + 1] IN PendingRecord(x) /\ x.code = d.code /\ x.number = d.number
      BY <3>1 DEF PendingRecord
    <3> QED BY <3>1, <3>2, Zenon
  <2> QED BY <2>1, Zenon
<1> HIDE DEF counted
<1>3. /\ answering' \in [Confirmers -> AnswerRecord]
      /\ \A r \in Confirmers : answering'[r].at # "idle" => answering'[r] = answering[r]
  BY <1>1, AnswerEnds
<1>4. PhoneTyped'
  BY <1>1, <1>2, <1>3 DEF PhoneTyped
<1>5. \A c \in PhoneCodes, n \in Phones : AskedFor(c, n)' => Claims(c, n)
  BY <1>1 DEF AskedFor, Claims
<1>6. \A c \in PhoneCodes, n \in Phones : PendingFor(c, n)' => Claims(c, n)
  BY <1>1, <1>2 DEF PendingFor, Claims
<1>7. \A c \in PhoneCodes, n \in Phones : AnsweredFor(c, n)' => Claims(c, n)
  BY <1>3 DEF AnsweredFor, Claims
<1>8. RightMeansTexted'
  BY <1>1, <1>3 DEF PhoneInv, RightMeansTexted
<1> QED BY <1>1, <1>4, <1>5, <1>6, <1>7, <1>8, PhoneQuiet

LEMMA ConsumeKeeps ==
    ASSUME PhoneInv, NEW k \in Confirmers, ConsumeCode(k) PROVE PhoneInv'
<1> DEFINE rec == [answering[k] EXCEPT !.at = "write"]
<1>1. /\ answering[k].at = "consume" /\ UNCHANGED <<phone, asking, textedTo, drawn, provedBy>> /\ PhoneTyped
      /\ pending' \subseteq pending /\ answering \in [Confirmers -> AnswerRecord]
  BY DEF ConsumeCode, PhoneInv, PhoneTyped, Without
<1>2. answering' = [answering EXCEPT ![k] = rec]
  BY Zenon DEF ConsumeCode
<1>3. rec \in AnswerRecord /\ rec.user = answering[k].user /\ rec.number = answering[k].number
      /\ rec.code = answering[k].code
  BY <1>1 DEF AnswerRecord
<1> HIDE DEF rec
<1>4. /\ answering' \in [Confirmers -> AnswerRecord] /\ answering'[k] = rec
      /\ \A r \in Confirmers : r # k => answering'[r] = answering[r]
  BY <1>1, <1>2, <1>3
<1>5. PhoneTyped'
  BY <1>1, <1>3, <1>4 DEF PhoneTyped
<1>6. \A c \in PhoneCodes, n \in Phones : AskedFor(c, n)' => Claims(c, n)
  BY <1>1 DEF AskedFor, Claims
<1>7. \A c \in PhoneCodes, n \in Phones : PendingFor(c, n)' => Claims(c, n)
  BY <1>1 DEF PendingFor, Claims
<1>8. \A c \in PhoneCodes, n \in Phones : AnsweredFor(c, n)' => Claims(c, n)
  BY <1>1, <1>3, <1>4 DEF AnsweredFor, Claims
<1>9. RightMeansTexted'
  BY <1>1, <1>3, <1>4 DEF PhoneInv, RightMeansTexted
<1> QED BY <1>1, <1>5, <1>6, <1>7, <1>8, <1>9, PhoneQuiet

\* The write: what the record claims is what was texted.
LEMMA WriteKeeps ==
    ASSUME PhoneInv, NEW k \in Confirmers, WritePhone(k) PROVE PhoneInv'
<1> DEFINE u == answering[k].user
           n == answering[k].number
           c == answering[k].code
<1>1. /\ answering[k].at = "write" /\ UNCHANGED <<pending, asking, textedTo, drawn>> /\ PhoneTyped
      /\ answering' = [answering EXCEPT ![k] = NoAnswer]
      /\ \/ UNCHANGED <<phone, provedBy>>
         \/ phone' = [phone EXCEPT ![u] = n] /\ provedBy' = [provedBy EXCEPT ![u] = c]
  BY Zenon DEF WritePhone, NumberOf, PhoneInv
<1>2. u \in Holders /\ n \in Phones /\ c \in PhoneCodes
  BY <1>1 DEF PhoneTyped
<1>3. textedTo[c] = n
  <2>1. textedTo[c] # NoPhone /\ textedTo[c] \in Phones
    BY <1>1, <1>2 DEF PhoneInv, RightMeansTexted, PhoneTyped
  <2>2. Claims(c, textedTo[c])
    BY <2>1 DEF Claims, TextedFor
  <2>3. Claims(c, n)
    BY <1>1 DEF Claims, AnsweredFor
  <2> QED BY <1>2, <2>1, <2>2, <2>3 DEF PhoneInv, ClaimsAgree
<1>4. /\ answering' \in [Confirmers -> AnswerRecord]
      /\ \A r \in Confirmers : answering'[r].at # "idle" => answering'[r] = answering[r]
  BY <1>1, AnswerEnds
<1> HIDE DEF u, n, c
<1>5. PhoneTyped'
  BY <1>1, <1>2, <1>4 DEF PhoneTyped
<1>6. \A d \in PhoneCodes, m \in Phones : Claims(d, m)' => Claims(d, m)
  <2>1. \A d \in PhoneCodes, m \in Phones : AnsweredFor(d, m)' => AnsweredFor(d, m)
    BY <1>4 DEF AnsweredFor
  <2>2. \A d \in PhoneCodes, m \in Phones :
            /\ AskedFor(d, m)' => AskedFor(d, m)
            /\ PendingFor(d, m)' => PendingFor(d, m)
            /\ TextedFor(d, m)' => TextedFor(d, m)
    BY <1>1 DEF AskedFor, PendingFor, TextedFor
  <2> QED BY <2>1, <2>2, Zenon DEF Claims
<1>7. ClaimsAgree'
  BY <1>1, <1>5, <1>6, NoNewClaim
<1>8. RightMeansTexted'
  BY <1>1, <1>4 DEF PhoneInv, RightMeansTexted
<1>9. NumberWasTexted'
  BY <1>1, <1>2, <1>3 DEF PhoneInv, NumberWasTexted, PhoneTyped
<1> QED BY <1>5, <1>7, <1>8, <1>9 DEF PhoneInv

LEMMA PhoneStep == ASSUME PhoneInv, [PhoneNext]_phoneVars PROVE PhoneInv'
<1>1. ASSUME UNCHANGED <<asking, answering, textedTo, drawn>>, pending' \subseteq pending,
             phone' \in [Holders -> Phones], provedBy' \in [Holders -> PhoneCodes \cup {NoPhone}],
             NumberWasTexted'
      PROVE  PhoneInv'
  <2>1. PhoneTyped'
    BY <1>1 DEF PhoneInv, PhoneTyped
  <2>2. \A d \in PhoneCodes, m \in Phones :
            /\ AskedFor(d, m)' => AskedFor(d, m)
            /\ PendingFor(d, m)' => PendingFor(d, m)
            /\ AnsweredFor(d, m)' => AnsweredFor(d, m)
            /\ TextedFor(d, m)' => TextedFor(d, m)
    BY <1>1 DEF AskedFor, PendingFor, AnsweredFor, TextedFor
  <2>3. \A d \in PhoneCodes, m \in Phones : Claims(d, m)' => Claims(d, m)
    BY <2>2, Zenon DEF Claims
  <2>4. ClaimsAgree'
    BY <1>1, <2>1, <2>3, NoNewClaim
  <2>5. RightMeansTexted'
    BY <1>1 DEF PhoneInv, RightMeansTexted
  <2> QED BY <1>1, <2>1, <2>4, <2>5 DEF PhoneInv
<1>2. ASSUME NEW u \in Holders, NEW n \in Phones, EditProfile(u, n) PROVE PhoneInv'
  <2>1. /\ UNCHANGED <<pending, asking, answering, textedTo, drawn>>
        /\ phone' = [phone EXCEPT ![u] = n] /\ provedBy' = [provedBy EXCEPT ![u] = NoPhone]
    BY <1>2 DEF EditProfile
  <2>2. NumberWasTexted'
    BY <2>1, PhoneAssumption DEF PhoneInv, NumberWasTexted, PhoneTyped
  <2>3. phone' \in [Holders -> Phones] /\ provedBy' \in [Holders -> PhoneCodes \cup {NoPhone}]
    BY <2>1 DEF PhoneInv, PhoneTyped
  <2> QED BY <1>1, <2>1, <2>2, <2>3
<1>3. ASSUME UNCHANGED <<phone, asking, answering, textedTo, drawn, provedBy>>, pending' \subseteq pending
      PROVE  PhoneInv'
  <2>1. NumberWasTexted'
    BY <1>3 DEF PhoneInv, NumberWasTexted
  <2> QED BY <1>1, <1>3, <2>1 DEF PhoneInv, PhoneTyped
<1>4. ASSUME NEW c \in PhoneCodes, VerificationExpires(c) PROVE PhoneInv'
  BY <1>3, <1>4 DEF VerificationExpires, Without
<1>5. CASE UNCHANGED phoneVars
  BY <1>3, <1>5 DEF phoneVars
<1>6. ASSUME NEW q \in Requesters, NEW u \in Holders, NEW n \in Phones, RequestVerification(q, u, n) PROVE PhoneInv'
  BY <1>6, RequestKeeps
<1>7. ASSUME NEW q \in Requesters, SupersedePending(q) \/ StoreVerification(q) \/ SendCode(q) \/ UndoRequest(q)
      PROVE  PhoneInv'
  BY <1>7, RequestMoves, SendKeeps
<1>8. ASSUME NEW k \in Confirmers, NEW u \in Holders, NEW c \in PhoneCodes \cup {NoPhone}, Confirm(k, u, c)
      PROVE  PhoneInv'
  BY <1>8, ConfirmKeeps
<1>9. ASSUME NEW k \in Confirmers, CountWrongCode(k) \/ ConsumeCode(k) \/ WritePhone(k) PROVE PhoneInv'
  BY <1>9, CountKeeps, ConsumeKeeps, WriteKeeps
<1> QED BY <1>2, <1>4, <1>5, <1>6, <1>7, <1>8, <1>9 DEF PhoneNext

\* A number an account has by a code is always the number that code was texted to, however many
\* requests and confirmations of however many users overlap.
THEOREM ProvedNumbersWereTexted == PhoneSpec => []NumberWasTexted
<1>1. PhoneInit => PhoneInv
  <2> SUFFICES ASSUME PhoneInit PROVE PhoneInv
    OBVIOUS
  <2>1. NoAsking \in AskRecord /\ NoAsking.at = "idle" /\ NoAnswer \in AnswerRecord /\ NoAnswer.at = "idle"
    BY DEF NoAsking, NoAnswer, AskRecord, AnswerRecord
  <2> HIDE DEF NoAsking, NoAnswer
  <2>2. PhoneTyped
    BY <2>1, PhoneAssumption DEF PhoneInit, PhoneTyped
  <2>3. \A c \in PhoneCodes, n \in Phones : ~Claims(c, n)
    BY <2>1 DEF PhoneInit, Claims, AskedFor, PendingFor, AnsweredFor, TextedFor
  <2>4. ClaimsAgree
    BY <2>3 DEF ClaimsAgree
  <2>5. RightMeansTexted /\ NumberWasTexted
    BY <2>1, PhoneAssumption DEF PhoneInit, RightMeansTexted, NumberWasTexted
  <2> QED BY <2>2, <2>4, <2>5 DEF PhoneInv
<1>2. PhoneSpec => []PhoneInv
  BY <1>1, PhoneStep, PTL DEF PhoneSpec
<1> QED BY <1>2, PTL DEF PhoneInv
-----------------------------------------------------------------------------
(***************************************************************************)
(* StationRegister.  The index alone keeps two stations from being default *)
(* at once.  That one of the active stations is default takes more: it     *)
(* holds while removals follow one another, and not when two overlap.      *)
(***************************************************************************)
StationRecord == [area: Areas, isDefault: BOOLEAN, isFavourite: BOOLEAN, isActive: BOOLEAN]
RemovalRecord == [at: {"idle", "count", "withdraw", "find", "promote"}, site: Nat, wasDefault: BOOLEAN, next: Nat]

Inserted == Cardinality(DOMAIN sites)

SitesTyped ==
    /\ Inserted \in Nat /\ sites \in [1..Inserted -> StationRecord]
    /\ making \in [Makers -> [at: {"idle", "count", "insert"}, first: BOOLEAN]]
    /\ removing \in [Removers -> RemovalRecord]
    /\ \A r \in Removers : removing[r].at \in {"count", "withdraw"} => removing[r].site \in DOMAIN sites
    /\ \A r \in Removers : removing[r].at = "promote" => removing[r].next \in DOMAIN sites

AtMostOneDefault == \A s, t \in DOMAIN sites : sites[s].isDefault /\ sites[t].isDefault => s = t

OnlyInsertedSites == SitesTyped /\ AtMostOneDefault

\* What a write of one station does to the register.
Rewrites(s, site) ==
    sites' = [sites EXCEPT ![s] = site]

LEMMA RewriteShape ==
    ASSUME SitesTyped, NEW s \in DOMAIN sites, NEW site \in StationRecord, Rewrites(s, site)
    PROVE  /\ DOMAIN sites' = DOMAIN sites /\ Inserted' = Inserted /\ sites' \in [1..Inserted' -> StationRecord]
           /\ sites'[s] = site /\ \A t \in DOMAIN sites : t # s => sites'[t] = sites[t]
<1>1. sites \in [1..Inserted -> StationRecord]
  BY DEF SitesTyped
<1>2. DOMAIN sites' = DOMAIN sites
  BY <1>1 DEF Rewrites
<1>3. Inserted' = Inserted
  BY <1>2 DEF Inserted
<1> HIDE DEF Inserted
<1> QED BY <1>1, <1>2, <1>3 DEF Rewrites

LEMMA UpdateShape ==
    ASSUME SitesTyped, NEW s, NEW a \in Areas, UpdateStation(s, a)
    PROVE  \E site \in StationRecord : /\ s \in DOMAIN sites /\ Rewrites(s, site)
                                       /\ site.isDefault = sites[s].isDefault /\ site.isActive = sites[s].isActive
<1> DEFINE site == [sites[s] EXCEPT !.area = a]
<1>1. Rewrites(s, site) /\ s \in DOMAIN sites /\ sites \in [1..Inserted -> StationRecord]
  BY Zenon DEF UpdateStation, Rewrites, SitesTyped
<1>2. sites[s] \in StationRecord
  BY <1>1
<1>3. site \in StationRecord /\ site.isDefault = sites[s].isDefault /\ site.isActive = sites[s].isActive
  BY <1>2 DEF StationRecord
<1> HIDE DEF site
<1> QED BY <1>1, <1>3

LEMMA FavouriteShape ==
    ASSUME SitesTyped, NEW s, NEW f \in BOOLEAN, SetFavourite(s, f)
    PROVE  \E site \in StationRecord : /\ s \in DOMAIN sites /\ Rewrites(s, site)
                                       /\ site.isDefault = sites[s].isDefault /\ site.isActive = sites[s].isActive
<1> DEFINE site == [sites[s] EXCEPT !.isFavourite = f]
<1>1. Rewrites(s, site) /\ s \in DOMAIN sites /\ sites \in [1..Inserted -> StationRecord]
  BY Zenon DEF SetFavourite, Rewrites, SitesTyped
<1>2. sites[s] \in StationRecord
  BY <1>1
<1>3. site \in StationRecord /\ site.isDefault = sites[s].isDefault /\ site.isActive = sites[s].isActive
  BY <1>2 DEF StationRecord
<1> HIDE DEF site
<1> QED BY <1>1, <1>3

LEMMA WithdrawShape ==
    ASSUME SitesTyped, NEW r \in Removers, WithdrawStation(r)
    PROVE  /\ \E site \in StationRecord : /\ removing[r].site \in DOMAIN sites /\ Rewrites(removing[r].site, site)
                                          /\ site.isDefault = FALSE /\ site.isActive = FALSE
           /\ \E rec \in RemovalRecord : /\ removing' = [removing EXCEPT ![r] = rec]
                                         /\ rec.at = IF removing[r].wasDefault THEN "find" ELSE "idle"
<1> DEFINE s == removing[r].site
           site == [sites[s] EXCEPT !.isActive = FALSE, !.isDefault = FALSE]
           rec == [removing[r] EXCEPT !.at = "find"]
<1>1. /\ Rewrites(s, site) /\ removing[r].at = "withdraw" /\ sites \in [1..Inserted -> StationRecord]
      /\ removing' = [removing EXCEPT ![r] = IF removing[r].wasDefault THEN rec ELSE NoRemoval]
  BY Zenon DEF WithdrawStation, Rewrites, SitesTyped
<1>2. s \in DOMAIN sites /\ removing[r] \in RemovalRecord
  BY <1>1 DEF SitesTyped
<1>3. sites[s] \in StationRecord
  BY <1>1, <1>2
<1>4. site \in StationRecord /\ site.isDefault = FALSE /\ site.isActive = FALSE
  BY <1>3 DEF StationRecord
<1>5. rec \in RemovalRecord /\ rec.at = "find" /\ NoRemoval \in RemovalRecord /\ NoRemoval.at = "idle"
  BY <1>2 DEF RemovalRecord, NoRemoval
<1> HIDE DEF s, site, rec, NoRemoval
<1>6. \E x \in RemovalRecord : /\ removing' = [removing EXCEPT ![r] = x]
                               /\ x.at = IF removing[r].wasDefault THEN "find" ELSE "idle"
  <2>1. CASE removing[r].wasDefault
    <3>1. removing' = [removing EXCEPT ![r] = rec]
      BY <1>1, <2>1, Zenon
    <3>2. rec.at = IF removing[r].wasDefault THEN "find" ELSE "idle"
      BY <1>5, <2>1
    <3> QED BY <1>5, <3>1, <3>2, Zenon
  <2>2. CASE ~removing[r].wasDefault
    <3>1. removing' = [removing EXCEPT ![r] = NoRemoval]
      BY <1>1, <2>2, Zenon
    <3>2. NoRemoval.at = IF removing[r].wasDefault THEN "find" ELSE "idle"
      BY <1>5, <2>2
    <3> QED BY <1>5, <3>1, <3>2, Zenon
  <2> QED BY <2>1, <2>2
<1> QED BY <1>1, <1>2, <1>4, <1>6, Zenon DEF s

\* A removal taken one step further.
Moves(r, rec) == removing' = [removing EXCEPT ![r] = rec] /\ UNCHANGED <<sites, making>>

LEMMA RemoveShape ==
    ASSUME SitesTyped, NEW r \in Removers, NEW s, RemoveStation(r, s)
    PROVE  /\ s \in ActiveSites /\ s \in DOMAIN sites
           /\ \E rec \in RemovalRecord : /\ Moves(r, rec) /\ rec.at = "count" /\ rec.site = s
                                         /\ rec.wasDefault = sites[s].isDefault
<1> DEFINE rec == [NoRemoval EXCEPT !.at = "count", !.site = s, !.wasDefault = sites[s].isDefault]
<1>1. Moves(r, rec) /\ s \in ActiveSites /\ sites \in [1..Inserted -> StationRecord] /\ Inserted \in Nat
  BY Zenon DEF RemoveStation, Moves, SitesTyped
<1>2. s \in DOMAIN sites
  BY <1>1 DEF ActiveSites
<1>3. s \in Nat /\ sites[s].isDefault \in BOOLEAN
  BY <1>1, <1>2 DEF StationRecord
<1>4. rec \in RemovalRecord /\ rec.at = "count" /\ rec.site = s /\ rec.wasDefault = sites[s].isDefault
  BY <1>3 DEF RemovalRecord, NoRemoval
<1> HIDE DEF rec
<1> QED BY <1>1, <1>2, <1>4

LEMMA CountShape ==
    ASSUME SitesTyped, NEW r \in Removers, CountActive(r)
    PROVE  /\ removing[r].at = "count"
           /\ \E rec \in RemovalRecord :
                 /\ Moves(r, rec)
                 /\ \/ rec.at = "idle"
                    \/ /\ rec.at = "withdraw" /\ rec.site = removing[r].site
                       /\ rec.wasDefault = removing[r].wasDefault /\ ~(Cardinality(ActiveSites) <= 1)
<1> DEFINE moved == [removing[r] EXCEPT !.at = "withdraw"]
<1>1. /\ removing[r].at = "count" /\ removing[r] \in RemovalRecord
      /\ Moves(r, IF Cardinality(ActiveSites) <= 1 THEN NoRemoval ELSE moved)
  BY Zenon DEF CountActive, Moves, SitesTyped
<1>2. /\ moved \in RemovalRecord /\ moved.at = "withdraw" /\ moved.site = removing[r].site
      /\ moved.wasDefault = removing[r].wasDefault
  BY <1>1 DEF RemovalRecord
<1>3. NoRemoval \in RemovalRecord /\ NoRemoval.at = "idle"
  BY DEF RemovalRecord, NoRemoval
<1> HIDE DEF moved, NoRemoval
<1>4. CASE Cardinality(ActiveSites) <= 1
  <2>1. Moves(r, NoRemoval)
    BY <1>1, <1>4, Zenon
  <2> QED BY <1>1, <1>3, <2>1
<1>5. CASE ~(Cardinality(ActiveSites) <= 1)
  <2>1. Moves(r, moved)
    BY <1>1, <1>5, Zenon
  <2> QED BY <1>1, <1>2, <1>5, <2>1
<1> QED BY <1>4, <1>5

LEMMA FindShape ==
    ASSUME SitesTyped, NEW r \in Removers, FindNextOldest(r)
    PROVE  /\ removing[r].at = "find"
           /\ \E rec \in RemovalRecord :
                 /\ Moves(r, rec)
                 /\ \/ rec.at = "idle" /\ ActiveSites = {}
                    \/ rec.at = "promote" /\ rec.next \in ActiveSites
<1> DEFINE oldest == CHOOSE s \in ActiveSites : \A t \in ActiveSites : s <= t
           moved == [removing[r] EXCEPT !.at = "promote", !.next = oldest]
<1>1. /\ removing[r].at = "find" /\ removing[r] \in RemovalRecord
      /\ Moves(r, IF ActiveSites = {} THEN NoRemoval ELSE moved)
  BY Zenon DEF FindNextOldest, Moves, SitesTyped
<1>2. ActiveSites \subseteq Nat
  BY DEF ActiveSites, SitesTyped
<1>3. ActiveSites # {} => oldest \in ActiveSites
  <2>1. ASSUME ActiveSites # {} PROVE \E s \in ActiveSites : \A t \in ActiveSites : s <= t
    <3>1. PICK s \in ActiveSites : \A t \in ActiveSites : ~(<<t, s>> \in OpToRel(<, Nat))
      BY <1>2, <2>1, NatLessThanWellFounded, WFMin, Zenon
    <3>2. \A t \in ActiveSites : ~(t < s)
      BY <1>2, <3>1 DEF OpToRel
    <3> QED BY <1>2, <3>2
  <2> QED BY <2>1, Zenon
<1> HIDE DEF oldest
<1>4. ActiveSites # {} => moved \in RemovalRecord /\ moved.at = "promote" /\ moved.next = oldest
  BY <1>1, <1>2, <1>3 DEF RemovalRecord
<1>5. NoRemoval \in RemovalRecord /\ NoRemoval.at = "idle"
  BY DEF RemovalRecord, NoRemoval
<1> HIDE DEF moved, NoRemoval
<1>6. CASE ActiveSites = {}
  <2>1. Moves(r, NoRemoval)
    BY <1>1, <1>6, Zenon
  <2> QED BY <1>1, <1>5, <1>6, <2>1
<1>7. CASE ActiveSites # {}
  <2>1. Moves(r, moved)
    BY <1>1, <1>7, Zenon
  <2>2. moved.next \in ActiveSites
    BY <1>3, <1>4, <1>7
  <2> QED BY <1>1, <1>4, <1>7, <2>1, <2>2
<1> QED BY <1>6, <1>7

LEMMA PromoteShape ==
    ASSUME SitesTyped, NEW r \in Removers, PromoteStation(r)
    PROVE  /\ removing[r].at = "promote" /\ removing[r].next \in DOMAIN sites /\ UNCHANGED making
           /\ NoRemoval \in RemovalRecord /\ NoRemoval.at = "idle"
           /\ removing' = [removing EXCEPT ![r] = NoRemoval]
           /\ \/ UNCHANGED sites /\ \E t \in DOMAIN sites : sites[t].isDefault
              \/ /\ \A t \in DOMAIN sites : sites[t].isDefault => t = removing[r].next
                 /\ \E site \in StationRecord : /\ Rewrites(removing[r].next, site) /\ site.isDefault = TRUE
                                                /\ site.isActive = sites[removing[r].next].isActive
<1> DEFINE s == removing[r].next
           site == [sites[s] EXCEPT !.isDefault = TRUE]
<1>1. /\ removing[r].at = "promote" /\ UNCHANGED making /\ removing' = [removing EXCEPT ![r] = NoRemoval]
      /\ sites \in [1..Inserted -> StationRecord]
  BY DEF PromoteStation, SitesTyped
<1>2. s \in DOMAIN sites
  BY <1>1 DEF SitesTyped
<1>3. NoRemoval \in RemovalRecord /\ NoRemoval.at = "idle"
  BY DEF RemovalRecord, NoRemoval
<1>4. CASE DefaultTaken(s)
  <2>1. UNCHANGED sites
    BY <1>4, Zenon DEF PromoteStation
  <2>2. \E t \in DOMAIN sites : sites[t].isDefault
    BY <1>4 DEF DefaultTaken
  <2> QED BY <1>1, <1>2, <1>3, <2>1, <2>2
<1>5. CASE ~DefaultTaken(s)
  <2>1. Rewrites(s, site)
    BY <1>5, Zenon DEF PromoteStation, Rewrites
  <2>2. sites[s] \in StationRecord
    BY <1>1, <1>2
  <2>3. site \in StationRecord /\ site.isDefault = TRUE /\ site.isActive = sites[s].isActive
    BY <2>2 DEF StationRecord
  <2>4. \A t \in DOMAIN sites : sites[t].isDefault => t = s
    BY <1>5 DEF DefaultTaken
  <2> HIDE DEF site, s
  <2> QED BY <1>1, <1>2, <1>3, <2>1, <2>3, <2>4, Zenon DEF s
<1> QED BY <1>4, <1>5

LEMMA InsertShape ==
    ASSUME SitesTyped, NEW m \in Makers, InsertStation(m)
    PROVE  /\ making[m].at = "insert" /\ UNCHANGED removing
           /\ NoMaking \in [at: {"idle", "count", "insert"}, first: BOOLEAN] /\ NoMaking.at = "idle"
           /\ making' = [making EXCEPT ![m] = NoMaking]
           /\ \/ UNCHANGED sites
              \/ \E site \in StationRecord :
                    /\ site.isDefault = making[m].first /\ site.isActive = TRUE
                    /\ making[m].first => \A t \in DOMAIN sites : ~sites[t].isDefault
                    /\ Inserted' = Inserted + 1 /\ DOMAIN sites' = DOMAIN sites \cup {Inserted + 1}
                    /\ Inserted + 1 \notin DOMAIN sites /\ sites' \in [1..Inserted' -> StationRecord]
                    /\ sites'[Inserted + 1] = site /\ \A t \in DOMAIN sites : sites'[t] = sites[t]
<1> DEFINE n == Inserted + 1
<1>1. /\ making[m].at = "insert" /\ UNCHANGED removing /\ making' = [making EXCEPT ![m] = NoMaking]
      /\ sites \in [1..Inserted -> StationRecord] /\ Inserted \in Nat
  BY DEF InsertStation, SitesTyped
<1>2. NoMaking \in [at: {"idle", "count", "insert"}, first: BOOLEAN] /\ NoMaking.at = "idle"
  BY DEF NoMaking
<1>3. CASE sites' # sites
  <2>1. /\ ~(making[m].first /\ DefaultTaken(n))
        /\ \E a \in Areas : sites' = [s \in 1..n |-> IF s = n THEN Station(a, making[m].first) ELSE sites[s]]
    BY <1>3, Zenon DEF InsertStation, Inserted
  <2>2. PICK a \in Areas : sites' = [s \in 1..n |-> IF s = n THEN Station(a, making[m].first) ELSE sites[s]]
    BY <2>1
  <2> DEFINE site == Station(a, making[m].first)
  <2>3. making[m].first \in BOOLEAN
    BY DEF SitesTyped
  <2>4. site \in StationRecord /\ site.isDefault = making[m].first /\ site.isActive = TRUE
    BY <2>3 DEF StationRecord, Station
  <2>5. sites' = [s \in 1..n |-> IF s = n THEN site ELSE sites[s]]
    BY <2>2, Zenon
  <2> HIDE DEF site
  <2>6. Inserted' = n
    <3>1. DOMAIN sites' = 1..n
      BY <2>5
    <3>2. 1 \in Int /\ n \in Int
      BY <1>1
    <3>3. Cardinality(1..n) = IF 1 > n THEN 0 ELSE n - 1 + 1
      BY <3>2, FS_Interval, Zenon
    <3>4. Inserted' = Cardinality(1..n)
      BY <3>1, Zenon DEF Inserted
    <3> HIDE DEF Inserted
    <3>5. n > 0
      BY <1>1
    <3> QED BY <3>2, <3>3, <3>4, <3>5
  <2> HIDE DEF Inserted
  <2>7. /\ DOMAIN sites' = DOMAIN sites \cup {n} /\ n \notin DOMAIN sites
        /\ sites'[n] = site /\ \A t \in DOMAIN sites : sites'[t] = sites[t]
    BY <1>1, <2>5
  <2>8. sites' \in [1..n -> StationRecord]
    BY <1>1, <2>4, <2>5
  <2>9. making[m].first => \A t \in DOMAIN sites : ~sites[t].isDefault
    BY <2>1, <2>7 DEF DefaultTaken
  <2> HIDE DEF NoMaking
  <2> QED BY <1>1, <1>2, <2>4, <2>6, <2>7, <2>8, <2>9, Zenon
<1> QED BY <1>1, <1>2, <1>3

\* A write that marks no further station keeps the mark unique.
LEMMA RewriteKeeps ==
    ASSUME OnlyInsertedSites, NEW s \in DOMAIN sites, NEW site \in StationRecord, Rewrites(s, site),
           site.isDefault => \A t \in DOMAIN sites : sites[t].isDefault => t = s,
           making' \in [Makers -> [at: {"idle", "count", "insert"}, first: BOOLEAN]],
           removing' \in [Removers -> RemovalRecord],
           \A r \in Removers : removing'[r].at \in {"count", "withdraw", "promote"} => removing'[r] = removing[r]
    PROVE  OnlyInsertedSites'
<1>1. SitesTyped
  BY DEF OnlyInsertedSites
<1>2. /\ DOMAIN sites' = DOMAIN sites /\ Inserted' = Inserted /\ sites' \in [1..Inserted' -> StationRecord]
      /\ sites'[s] = site /\ \A t \in DOMAIN sites : t # s => sites'[t] = sites[t]
  BY <1>1, RewriteShape
<1>3. SitesTyped'
  BY <1>1, <1>2 DEF SitesTyped
<1>4. AtMostOneDefault'
  BY <1>2 DEF OnlyInsertedSites, AtMostOneDefault
<1> QED BY <1>3, <1>4 DEF OnlyInsertedSites

LEMMA UnchangedSitesKeep ==
    ASSUME OnlyInsertedSites, UNCHANGED sites,
           making' \in [Makers -> [at: {"idle", "count", "insert"}, first: BOOLEAN]],
           removing' \in [Removers -> RemovalRecord],
           \A r \in Removers : removing'[r].at \in {"count", "withdraw"} => removing'[r].site \in DOMAIN sites,
           \A r \in Removers : removing'[r].at = "promote" => removing'[r].next \in DOMAIN sites
    PROVE  OnlyInsertedSites'
<1>1. Inserted' = Inserted
  BY DEF Inserted
<1>2. SitesTyped'
  BY <1>1 DEF OnlyInsertedSites, SitesTyped
<1> QED BY <1>2 DEF OnlyInsertedSites, AtMostOneDefault

\* A creating call that counts: what it counted is a fact of the register then.
LEMMA MakingShape ==
    ASSUME SitesTyped, NEW m \in Makers, CreateClient(m) \/ CreateClientStation(m) \/ CountStations(m)
    PROVE  /\ UNCHANGED <<sites, removing>>
           /\ making' \in [Makers -> [at: {"idle", "count", "insert"}, first: BOOLEAN]]
           /\ \A k \in Makers : making'[k].at = "insert" =>
                 making'[k] = making[k] \/ (making'[k].first <=> ActiveSites = {})
<1>1. making \in [Makers -> [at: {"idle", "count", "insert"}, first: BOOLEAN]]
  BY DEF SitesTyped
<1>2. CASE CreateClient(m) \/ CreateClientStation(m)
  <2> DEFINE rec == [making[m] EXCEPT !.at = "count"]
  <2>1. making' = [making EXCEPT ![m] = rec] /\ UNCHANGED <<sites, removing>>
    BY <1>2, Zenon DEF CreateClient, CreateClientStation
  <2>2. rec \in [at: {"idle", "count", "insert"}, first: BOOLEAN] /\ rec.at = "count"
    BY <1>1
  <2> HIDE DEF rec
  <2> QED BY <1>1, <2>1, <2>2
<1>3. CASE CountStations(m)
  <2> DEFINE none == ActiveSites = {}
             rec == [at |-> "insert", first |-> none]
  <2>1. making' = [making EXCEPT ![m] = rec] /\ UNCHANGED <<sites, removing>>
    BY <1>3, Zenon DEF CountStations
  <2>2. none \in BOOLEAN
    OBVIOUS
  <2> HIDE DEF none
  <2>3. rec \in [at: {"idle", "count", "insert"}, first: BOOLEAN] /\ rec.first = none
    BY <2>2
  <2> HIDE DEF rec
  <2>4. \A k \in Makers : making'[k] = making[k] \/ making'[k].first = none
    BY <1>1, <2>1, <2>3
  <2>5. making' \in [Makers -> [at: {"idle", "count", "insert"}, first: BOOLEAN]]
    BY <1>1, <2>1, <2>3
  <2> QED BY <2>1, <2>4, <2>5, Zenon DEF none
<1> QED BY <1>2, <1>3

\* Every action keeps at most one station default, however many calls run.
LEMMA OneDefaultStep ==
    ASSUME OnlyInsertedSites, [StationNext]_stationVars PROVE OnlyInsertedSites'
<1>1. /\ SitesTyped /\ removing \in [Removers -> RemovalRecord]
      /\ making \in [Makers -> [at: {"idle", "count", "insert"}, first: BOOLEAN]]
  BY DEF OnlyInsertedSites, SitesTyped
<1>2. CASE UNCHANGED stationVars
  BY <1>1, <1>2, UnchangedSitesKeep DEF stationVars, SitesTyped
<1>3. ASSUME NEW m \in Makers, CreateClient(m) \/ CreateClientStation(m) \/ CountStations(m) PROVE OnlyInsertedSites'
  BY <1>1, <1>3, MakingShape, UnchangedSitesKeep DEF SitesTyped
<1>4. ASSUME NEW m \in Makers, InsertStation(m) PROVE OnlyInsertedSites'
  <2>1. /\ UNCHANGED removing /\ NoMaking \in [at: {"idle", "count", "insert"}, first: BOOLEAN]
        /\ making' = [making EXCEPT ![m] = NoMaking]
    BY <1>1, <1>4, InsertShape
  <2> HIDE DEF NoMaking
  <2>2. making' \in [Makers -> [at: {"idle", "count", "insert"}, first: BOOLEAN]]
    BY <1>1, <2>1
  <2>3. CASE UNCHANGED sites
    BY <1>1, <2>1, <2>2, <2>3, UnchangedSitesKeep DEF SitesTyped
  <2>4. CASE sites' # sites
    <3>1. PICK site \in StationRecord :
             /\ site.isDefault = making[m].first
             /\ making[m].first => \A t \in DOMAIN sites : ~sites[t].isDefault
             /\ Inserted' = Inserted + 1 /\ DOMAIN sites' = DOMAIN sites \cup {Inserted + 1}
             /\ sites' \in [1..Inserted' -> StationRecord]
             /\ sites'[Inserted + 1] = site /\ \A t \in DOMAIN sites : sites'[t] = sites[t]
      BY <1>1, <1>4, <2>4, InsertShape
    <3>2. Inserted' \in Nat
      BY <1>1, <3>1 DEF SitesTyped
    <3>3. SitesTyped'
      BY <1>1, <2>1, <2>2, <3>1, <3>2 DEF SitesTyped
    <3>4. AtMostOneDefault'
      BY <3>1 DEF OnlyInsertedSites, AtMostOneDefault
    <3> QED BY <3>3, <3>4 DEF OnlyInsertedSites
  <2> QED BY <2>3, <2>4
<1>5. ASSUME NEW s, (\E a \in Areas : UpdateStation(s, a)) \/ (\E f \in BOOLEAN : SetFavourite(s, f))
      PROVE  OnlyInsertedSites'
  <2>1. PICK site \in StationRecord : s \in DOMAIN sites /\ Rewrites(s, site) /\ site.isDefault = sites[s].isDefault
    BY <1>1, <1>5, UpdateShape, FavouriteShape
  <2>2. site.isDefault => \A t \in DOMAIN sites : sites[t].isDefault => t = s
    BY <2>1 DEF OnlyInsertedSites, AtMostOneDefault
  <2>3. UNCHANGED <<making, removing>>
    BY <1>5 DEF UpdateStation, SetFavourite
  <2> QED BY <1>1, <2>1, <2>2, <2>3, RewriteKeeps
<1>6. ASSUME NEW r \in Removers, NEW rec \in RemovalRecord, Moves(r, rec),
             rec.at \in {"count", "withdraw"} => rec.site \in DOMAIN sites,
             rec.at = "promote" => rec.next \in DOMAIN sites
      PROVE  OnlyInsertedSites'
  BY <1>1, <1>6, UnchangedSitesKeep DEF Moves, SitesTyped
<1>7. ASSUME NEW r \in Removers, NEW s, RemoveStation(r, s) PROVE OnlyInsertedSites'
  BY <1>1, <1>6, <1>7, RemoveShape
<1>8. ASSUME NEW r \in Removers, CountActive(r) PROVE OnlyInsertedSites'
  BY <1>1, <1>6, <1>8, CountShape DEF SitesTyped
<1>9. ASSUME NEW r \in Removers, FindNextOldest(r) PROVE OnlyInsertedSites'
  BY <1>1, <1>6, <1>9, FindShape DEF ActiveSites
<1>10. ASSUME NEW r \in Removers, WithdrawStation(r) PROVE OnlyInsertedSites'
  <2>1. PICK site \in StationRecord : /\ removing[r].site \in DOMAIN sites /\ Rewrites(removing[r].site, site)
                                      /\ site.isDefault = FALSE
    BY <1>1, <1>10, WithdrawShape
  <2>2. PICK rec \in RemovalRecord : /\ removing' = [removing EXCEPT ![r] = rec]
                                     /\ rec.at = IF removing[r].wasDefault THEN "find" ELSE "idle"
    BY <1>1, <1>10, WithdrawShape
  <2>3. rec.at \in {"find", "idle"}
    BY <2>2
  <2>4. /\ removing' \in [Removers -> RemovalRecord]
        /\ \A q \in Removers : removing'[q].at \in {"count", "withdraw", "promote"} => removing'[q] = removing[q]
    BY <1>1, <2>2, <2>3
  <2>5. UNCHANGED making
    BY <1>10 DEF WithdrawStation
  <2> QED BY <1>1, <2>1, <2>4, <2>5, RewriteKeeps
<1>11. ASSUME NEW r \in Removers, PromoteStation(r) PROVE OnlyInsertedSites'
  <2>1. /\ removing[r].next \in DOMAIN sites /\ UNCHANGED making
        /\ NoRemoval \in RemovalRecord /\ NoRemoval.at = "idle" /\ removing' = [removing EXCEPT ![r] = NoRemoval]
    BY <1>1, <1>11, PromoteShape
  <2> HIDE DEF NoRemoval
  <2>2. /\ removing' \in [Removers -> RemovalRecord]
        /\ \A q \in Removers : removing'[q].at \in {"count", "withdraw", "promote"} => removing'[q] = removing[q]
    BY <1>1, <2>1
  <2>3. CASE UNCHANGED sites
    BY <1>1, <2>1, <2>2, <2>3, UnchangedSitesKeep DEF SitesTyped
  <2>4. CASE ~UNCHANGED sites
    <3>1. \A t \in DOMAIN sites : sites[t].isDefault => t = removing[r].next
      BY <1>1, <1>11, <2>4, PromoteShape
    <3>2. PICK site \in StationRecord : Rewrites(removing[r].next, site)
      BY <1>1, <1>11, <2>4, PromoteShape
    <3> QED BY <1>1, <2>1, <2>2, <3>1, <3>2, RewriteKeeps
  <2> QED BY <2>3, <2>4
<1> QED
  BY <1>2, <1>3, <1>4, <1>5, <1>7, <1>8, <1>9, <1>10, <1>11 DEF StationNext

LEMMA OneDefaultInitially == StationInit => OnlyInsertedSites
<1> SUFFICES ASSUME StationInit PROVE OnlyInsertedSites
  OBVIOUS
<1>1. /\ NoMaking \in [at: {"idle", "count", "insert"}, first: BOOLEAN] /\ NoMaking.at = "idle"
      /\ NoRemoval \in RemovalRecord /\ NoRemoval.at = "idle"
  BY DEF NoMaking, NoRemoval, RemovalRecord
<1> HIDE DEF NoMaking, NoRemoval
<1>2. DOMAIN sites = {}
  BY DEF StationInit
<1>3. Inserted = 0
  BY <1>2, FS_EmptySet, Zenon DEF Inserted
<1>4. sites \in [1..Inserted -> StationRecord]
  BY <1>3 DEF StationInit
<1>5. SitesTyped
  BY <1>1, <1>3, <1>4 DEF StationInit, SitesTyped
<1>6. AtMostOneDefault
  BY <1>2 DEF AtMostOneDefault
<1> QED BY <1>5, <1>6 DEF OnlyInsertedSites

\* However many stations are created and removed at once, a client never has two default stations.
THEOREM NeverTwoDefaults == StationSpec => []AtMostOneDefault
<1>1. StationSpec => []OnlyInsertedSites
  BY OneDefaultInitially, OneDefaultStep, PTL DEF StationSpec
<1> QED BY <1>1, PTL DEF OnlyInsertedSites

(***************************************************************************)
(* One removal at a time.  Between its withdrawal and its promotion a      *)
(* removal may leave no default; the station it promotes is still active,  *)
(* and the other station it counted is, so a creating call that counted    *)
(* some station leaves it to the default there is.                         *)
(***************************************************************************)
Lapsing(r) == removing[r].at \in {"find", "promote"}

MarkedIsActive == \A s \in DOMAIN sites : sites[s].isDefault => sites[s].isActive
SomeDefault == \E s \in DOMAIN sites : sites[s].isDefault
DefaultUnlessLapsing == (\A r \in Removers : ~Lapsing(r)) => ActiveSites = {} \/ SomeDefault

\* What a removal read of the register still holds when it uses it.
RemovalKnows(r) ==
    /\ removing[r].at \in {"count", "withdraw"} =>
          removing[r].site \in ActiveSites /\ removing[r].wasDefault = sites[removing[r].site].isDefault
    /\ removing[r].at = "withdraw" => \E t \in ActiveSites : t # removing[r].site
    /\ removing[r].at = "promote" => removing[r].next \in ActiveSites

CountedStays == \A m \in Makers : making[m].at = "insert" /\ ~making[m].first => ActiveSites # {}

DefaultInv ==
    /\ OnlyInsertedSites /\ MarkedIsActive /\ DefaultUnlessLapsing /\ CountedStays
    /\ \A r \in Removers : RemovalKnows(r)

OneRemover == \A r, q \in Removers : r = q

\* A step that keeps every station's marks, or adds a station.
LEMMA MarksStay ==
    ASSUME DefaultInv, UNCHANGED removing, DOMAIN sites \subseteq DOMAIN sites',
           \A s \in DOMAIN sites : sites'[s].isDefault = sites[s].isDefault /\ sites'[s].isActive = sites[s].isActive
    PROVE  /\ ActiveSites \subseteq ActiveSites' /\ (SomeDefault => SomeDefault')
           /\ \A r \in Removers : RemovalKnows(r)'
<1>1. ActiveSites \subseteq ActiveSites'
  BY DEF ActiveSites
<1>2. \A s \in ActiveSites : s \in DOMAIN sites
  BY DEF ActiveSites
<1>3. ASSUME NEW r \in Removers PROVE RemovalKnows(r)'
  <2>1. RemovalKnows(r)
    BY DEF DefaultInv
  <2> QED BY <1>1, <1>2, <2>1 DEF RemovalKnows
<1> QED BY <1>1, <1>3 DEF SomeDefault

\* Counting more than one active station finds another beside one's own.
LEMMA AnotherActive ==
    ASSUME NEW s \in ActiveSites, ~(Cardinality(ActiveSites) <= 1)
    PROVE  \E t \in ActiveSites : t # s
<1>1. ASSUME \A t \in ActiveSites : t = s PROVE FALSE
  <2>1. ActiveSites = {s}
    BY <1>1
  <2>2. Cardinality(ActiveSites) = 1
    BY <2>1, FS_Singleton, Zenon
  <2> QED BY <2>2
<1> QED BY <1>1

\* A removal's step that writes no station.
LEMMA MoveKeeps ==
    ASSUME DefaultInv, OnlyInsertedSites', OneRemover, NEW r \in Removers, NEW rec \in RemovalRecord, Moves(r, rec),
           RemovalKnows(r)', rec.at \in {"find", "promote"} \/ ~Lapsing(r) \/ ActiveSites = {}
    PROVE  DefaultInv'
<1>1. UNCHANGED <<sites, making>> /\ removing' = [removing EXCEPT ![r] = rec] /\ removing \in [Removers -> RemovalRecord]
  BY DEF Moves, DefaultInv, OnlyInsertedSites, SitesTyped
<1>2. removing'[r] = rec /\ \A q \in Removers : q = r
  BY <1>1 DEF OneRemover
<1>3. MarkedIsActive' /\ CountedStays'
  BY <1>1 DEF DefaultInv, MarkedIsActive, CountedStays, ActiveSites
<1>4. DefaultUnlessLapsing'
  <2>1. ActiveSites' = ActiveSites /\ SomeDefault' = SomeDefault
    BY <1>1 DEF ActiveSites, SomeDefault
  <2> QED BY <1>2, <2>1 DEF DefaultInv, DefaultUnlessLapsing, Lapsing
<1> QED BY <1>2, <1>3, <1>4, Zenon DEF DefaultInv

LEMMA DefaultStep ==
    ASSUME DefaultInv, OneRemover, [StationNext]_stationVars PROVE DefaultInv'
<1>1. OnlyInsertedSites' /\ SitesTyped /\ OnlyInsertedSites /\ removing \in [Removers -> RemovalRecord]
  BY OneDefaultStep DEF DefaultInv, OnlyInsertedSites, SitesTyped
<1>2. ASSUME UNCHANGED <<sites, removing>>,
             \A k \in Makers : making'[k].at = "insert" => making'[k] = making[k] \/ (making'[k].first <=> ActiveSites = {})
      PROVE  DefaultInv'
  <2>1. \A r \in Removers : RemovalKnows(r)'
    BY <1>2, MarksStay
  <2>2. MarkedIsActive' /\ DefaultUnlessLapsing'
    BY <1>2 DEF DefaultInv, MarkedIsActive, DefaultUnlessLapsing, Lapsing, SomeDefault, ActiveSites
  <2>3. ActiveSites' = ActiveSites
    BY <1>2 DEF ActiveSites
  <2>4. CountedStays'
    BY <1>2, <2>3 DEF DefaultInv, CountedStays
  <2> QED BY <1>1, <2>1, <2>2, <2>4 DEF DefaultInv
<1>3. CASE UNCHANGED stationVars
  BY <1>2, <1>3 DEF stationVars
<1>4. ASSUME NEW m \in Makers, CreateClient(m) \/ CreateClientStation(m) \/ CountStations(m) PROVE DefaultInv'
  BY <1>1, <1>2, <1>4, MakingShape
<1>5. ASSUME NEW m \in Makers, InsertStation(m) PROVE DefaultInv'
  <2>1. /\ making[m].at = "insert" /\ UNCHANGED removing
        /\ NoMaking \in [at: {"idle", "count", "insert"}, first: BOOLEAN] /\ NoMaking.at = "idle"
        /\ making' = [making EXCEPT ![m] = NoMaking]
        /\ making \in [Makers -> [at: {"idle", "count", "insert"}, first: BOOLEAN]]
    BY <1>1, <1>5, InsertShape DEF SitesTyped
  <2> HIDE DEF NoMaking
  <2>2. \A k \in Makers : making'[k].at = "insert" => making'[k] = making[k]
    BY <2>1
  <2>3. CASE UNCHANGED sites
    BY <1>2, <2>1, <2>2, <2>3
  <2>4. CASE sites' # sites
    <3>1. PICK site \in StationRecord :
             /\ site.isDefault = making[m].first /\ site.isActive = TRUE
             /\ DOMAIN sites' = DOMAIN sites \cup {Inserted + 1}
             /\ sites'[Inserted + 1] = site /\ \A t \in DOMAIN sites : sites'[t] = sites[t]
      BY <1>1, <1>5, <2>4, InsertShape
    <3>2. /\ ActiveSites \subseteq ActiveSites' /\ (SomeDefault => SomeDefault')
          /\ \A r \in Removers : RemovalKnows(r)'
      BY <2>1, <3>1, MarksStay
    <3>3. CountedStays'
      BY <2>2, <3>2 DEF DefaultInv, CountedStays
    <3>4. MarkedIsActive'
      BY <3>1 DEF DefaultInv, MarkedIsActive
    <3>5. making[m].first => SomeDefault'
      BY <3>1 DEF SomeDefault
    <3>6. ~making[m].first => ActiveSites # {}
      BY <2>1 DEF DefaultInv, CountedStays
    <3>7. DefaultUnlessLapsing'
      BY <2>1, <3>2, <3>5, <3>6 DEF DefaultInv, DefaultUnlessLapsing, Lapsing
    <3> QED BY <1>1, <3>2, <3>3, <3>4, <3>7 DEF DefaultInv
  <2> QED BY <2>3, <2>4
<1>6. ASSUME NEW s, (\E a \in Areas : UpdateStation(s, a)) \/ (\E f \in BOOLEAN : SetFavourite(s, f))
      PROVE  DefaultInv'
  <2>1. PICK site \in StationRecord : /\ s \in DOMAIN sites /\ Rewrites(s, site)
                                      /\ site.isDefault = sites[s].isDefault /\ site.isActive = sites[s].isActive
    BY <1>1, <1>6, UpdateShape, FavouriteShape
  <2>2. UNCHANGED <<making, removing>>
    BY <1>6 DEF UpdateStation, SetFavourite
  <2>3. DOMAIN sites' = DOMAIN sites /\ sites'[s] = site /\ \A t \in DOMAIN sites : t # s => sites'[t] = sites[t]
    BY <1>1, <2>1, RewriteShape
  <2>4. \A t \in DOMAIN sites : sites'[t].isDefault = sites[t].isDefault /\ sites'[t].isActive = sites[t].isActive
    BY <2>1, <2>3
  <2>5. /\ ActiveSites \subseteq ActiveSites' /\ (SomeDefault => SomeDefault')
        /\ \A r \in Removers : RemovalKnows(r)'
    BY <2>2, <2>3, <2>4, MarksStay
  <2>6. ActiveSites' = ActiveSites
    BY <2>3, <2>4 DEF ActiveSites
  <2>7. MarkedIsActive'
    BY <2>3, <2>4 DEF DefaultInv, MarkedIsActive
  <2>8. CountedStays' /\ DefaultUnlessLapsing'
    BY <2>2, <2>5, <2>6 DEF DefaultInv, CountedStays, DefaultUnlessLapsing, Lapsing
  <2> QED BY <1>1, <2>5, <2>7, <2>8 DEF DefaultInv
<1>7. ASSUME NEW r \in Removers, NEW rec, Moves(r, rec) PROVE removing'[r] = rec /\ ActiveSites' = ActiveSites /\ sites' = sites
  BY <1>1, <1>7 DEF Moves, ActiveSites
<1>8. ASSUME NEW r \in Removers, NEW s, RemoveStation(r, s) PROVE DefaultInv'
  <2>1. PICK rec \in RemovalRecord : /\ Moves(r, rec) /\ rec.at = "count" /\ rec.site = s
                                     /\ rec.wasDefault = sites[s].isDefault
    BY <1>1, <1>8, RemoveShape
  <2>2. RemovalKnows(r)'
    BY <1>1, <1>7, <1>8, <2>1, RemoveShape DEF RemovalKnows
  <2>3. ~Lapsing(r)
    BY <1>8 DEF RemoveStation, Lapsing
  <2> QED BY <1>1, <2>1, <2>2, <2>3, MoveKeeps
<1>9. ASSUME NEW r \in Removers, CountActive(r) PROVE DefaultInv'
  <2>1. PICK rec \in RemovalRecord :
                 /\ Moves(r, rec)
                 /\ \/ rec.at = "idle"
                    \/ /\ rec.at = "withdraw" /\ rec.site = removing[r].site
                       /\ rec.wasDefault = removing[r].wasDefault /\ ~(Cardinality(ActiveSites) <= 1)
    BY <1>1, <1>9, CountShape
  <2>2. removing[r].at = "count" /\ ~Lapsing(r)
    BY <1>9 DEF CountActive, Lapsing
  <2>3. removing[r].site \in ActiveSites /\ removing[r].wasDefault = sites[removing[r].site].isDefault
    BY <2>2 DEF DefaultInv, RemovalKnows
  <2>4. RemovalKnows(r)'
    <3>1. CASE rec.at = "idle"
      BY <1>7, <2>1, <3>1 DEF RemovalKnows
    <3>2. CASE rec.at # "idle"
      BY <1>7, <2>1, <2>3, <3>2, AnotherActive DEF RemovalKnows
    <3> QED BY <3>1, <3>2
  <2> QED BY <1>1, <2>1, <2>2, <2>4, MoveKeeps
<1>10. ASSUME NEW r \in Removers, FindNextOldest(r) PROVE DefaultInv'
  <2>1. PICK rec \in RemovalRecord :
                 /\ Moves(r, rec)
                 /\ \/ rec.at = "idle" /\ ActiveSites = {}
                    \/ rec.at = "promote" /\ rec.next \in ActiveSites
    BY <1>1, <1>10, FindShape
  <2>2. RemovalKnows(r)'
    BY <1>7, <2>1 DEF RemovalKnows
  <2> QED BY <1>1, <2>1, <2>2, MoveKeeps
<1>11. ASSUME NEW r \in Removers, WithdrawStation(r) PROVE DefaultInv'
  <2> DEFINE s == removing[r].site
  <2>1. PICK site \in StationRecord : s \in DOMAIN sites /\ Rewrites(s, site) /\ site.isDefault = FALSE /\ site.isActive = FALSE
    BY <1>1, <1>11, WithdrawShape
  <2>2. PICK rec \in RemovalRecord : /\ removing' = [removing EXCEPT ![r] = rec]
                                     /\ rec.at = IF removing[r].wasDefault THEN "find" ELSE "idle"
    BY <1>1, <1>11, WithdrawShape
  <2>3. removing[r].at = "withdraw" /\ UNCHANGED making
    BY <1>11 DEF WithdrawStation
  <2>4. DOMAIN sites' = DOMAIN sites /\ sites'[s] = site /\ \A t \in DOMAIN sites : t # s => sites'[t] = sites[t]
    BY <1>1, <2>1, RewriteShape
  <2>5. /\ removing[r].wasDefault = sites[s].isDefault /\ \E t \in ActiveSites : t # s
        /\ removing[r].wasDefault \in BOOLEAN
    BY <1>1, <2>3 DEF DefaultInv, RemovalKnows, RemovalRecord
  <2>6. removing'[r] = rec /\ \A q \in Removers : q = r
    BY <1>1, <2>2 DEF OneRemover
  <2> HIDE DEF s
  <2>7. ActiveSites' # {}
    BY <2>4, <2>5 DEF ActiveSites
  <2>8. MarkedIsActive' /\ CountedStays'
    <3>1. MarkedIsActive'
      BY <2>1, <2>4 DEF DefaultInv, MarkedIsActive
    <3> QED BY <2>7, <3>1 DEF CountedStays
  <2>9. DefaultUnlessLapsing'
    <3>1. CASE removing[r].wasDefault
      BY <2>2, <2>6, <3>1 DEF DefaultUnlessLapsing, Lapsing
    <3>2. CASE ~removing[r].wasDefault
      <4>1. SomeDefault
        BY <2>3, <2>5, <2>6 DEF DefaultInv, DefaultUnlessLapsing, Lapsing
      <4>2. SomeDefault'
        BY <2>4, <2>5, <3>2, <4>1 DEF SomeDefault
      <4> QED BY <4>2 DEF DefaultUnlessLapsing
    <3> QED BY <3>1, <3>2
  <2>10. \A q \in Removers : RemovalKnows(q)'
    <3>1. removing'[r].at \in {"find", "idle"}
      BY <2>2, <2>6
    <3> QED BY <2>6, <3>1 DEF RemovalKnows
  <2> QED BY <1>1, <2>8, <2>9, <2>10 DEF DefaultInv
<1>12. ASSUME NEW r \in Removers, PromoteStation(r) PROVE DefaultInv'
  <2> DEFINE s == removing[r].next
  <2>1. /\ removing[r].at = "promote" /\ s \in DOMAIN sites /\ UNCHANGED making
        /\ NoRemoval \in RemovalRecord /\ NoRemoval.at = "idle" /\ removing' = [removing EXCEPT ![r] = NoRemoval]
    BY <1>1, <1>12, PromoteShape
  <2> HIDE DEF NoRemoval
  <2>2. removing'[r].at = "idle" /\ \A q \in Removers : q = r
    BY <1>1, <2>1 DEF OneRemover
  <2>3. \A q \in Removers : RemovalKnows(q)'
    BY <2>2 DEF RemovalKnows
  <2>4. CASE UNCHANGED sites /\ SomeDefault
    <3>1. ActiveSites' = ActiveSites /\ SomeDefault'
      BY <2>4 DEF ActiveSites, SomeDefault
    <3>2. MarkedIsActive'
      BY <2>4 DEF DefaultInv, MarkedIsActive
    <3>3. CountedStays' /\ DefaultUnlessLapsing'
      BY <2>1, <3>1 DEF DefaultInv, CountedStays, DefaultUnlessLapsing
    <3> QED BY <1>1, <2>3, <3>2, <3>3 DEF DefaultInv
  <2>5. CASE \E site \in StationRecord : Rewrites(s, site) /\ site.isDefault = TRUE /\ site.isActive = sites[s].isActive
    <3>1. PICK site \in StationRecord : Rewrites(s, site) /\ site.isDefault = TRUE /\ site.isActive = sites[s].isActive
      BY <2>5
    <3>2. DOMAIN sites' = DOMAIN sites /\ sites'[s] = site /\ \A t \in DOMAIN sites : t # s => sites'[t] = sites[t]
      BY <1>1, <2>1, <3>1, RewriteShape
    <3>3. s \in ActiveSites
      BY <2>1 DEF DefaultInv, RemovalKnows
    <3> HIDE DEF s
    <3>4. ActiveSites' = ActiveSites /\ SomeDefault' /\ sites[s].isActive
      BY <2>1, <3>1, <3>2, <3>3 DEF ActiveSites, SomeDefault
    <3>5. MarkedIsActive'
      BY <3>1, <3>2, <3>4 DEF DefaultInv, MarkedIsActive
    <3>6. CountedStays' /\ DefaultUnlessLapsing'
      BY <2>1, <3>4 DEF DefaultInv, CountedStays, DefaultUnlessLapsing
    <3> QED BY <1>1, <2>3, <3>5, <3>6 DEF DefaultInv
  <2>6. \/ UNCHANGED sites /\ SomeDefault
        \/ \E site \in StationRecord : Rewrites(s, site) /\ site.isDefault = TRUE /\ site.isActive = sites[s].isActive
    BY <1>1, <1>12, PromoteShape DEF SomeDefault
  <2> QED BY <2>4, <2>5, <2>6
<1> QED
  BY <1>3, <1>4, <1>5, <1>6, <1>8, <1>9, <1>10, <1>11, <1>12 DEF StationNext

\* The invariant gives the property.
LEMMA OneDefault == DefaultInv => DefaultNeverLapses
<1> SUFFICES ASSUME DefaultInv, ActiveSites # {}, \A r \in Removers : removing[r].at = "idle"
             PROVE  Cardinality({s \in ActiveSites : sites[s].isDefault}) = 1
  BY DEF DefaultNeverLapses
<1>1. SomeDefault
  BY DEF DefaultInv, DefaultUnlessLapsing, Lapsing
<1>2. PICK s \in DOMAIN sites : sites[s].isDefault
  BY <1>1 DEF SomeDefault
<1>3. {t \in ActiveSites : sites[t].isDefault} = {s}
  BY <1>2 DEF DefaultInv, MarkedIsActive, OnlyInsertedSites, AtMostOneDefault, ActiveSites
<1> QED BY <1>3, FS_Singleton, Zenon

\* While removals follow one another, a client with an active station has exactly one default
\* whenever no removal is half done, however many creating calls race.  With two removals at
\* once it fails: that is the run default_never_lapses.
THEOREM DefaultStandsWithOneRemover ==
    ASSUME OneRemover PROVE StationSpec => []DefaultNeverLapses
<1>1. StationInit => DefaultInv
  <2> SUFFICES ASSUME StationInit PROVE DefaultInv
    OBVIOUS
  <2>1. NoMaking.at = "idle" /\ NoRemoval.at = "idle"
    BY DEF NoMaking, NoRemoval
  <2> HIDE DEF NoMaking, NoRemoval
  <2>2. ActiveSites = {} /\ DOMAIN sites = {}
    BY DEF StationInit, ActiveSites
  <2>3. MarkedIsActive /\ DefaultUnlessLapsing /\ CountedStays
    BY <2>1, <2>2 DEF StationInit, MarkedIsActive, DefaultUnlessLapsing, CountedStays
  <2>4. \A r \in Removers : RemovalKnows(r)
    BY <2>1 DEF StationInit, RemovalKnows
  <2> QED BY <2>3, <2>4, OneDefaultInitially DEF DefaultInv
<1>2. ASSUME DefaultInv, [StationNext]_stationVars PROVE DefaultInv'
  BY <1>2, DefaultStep
<1>3. StationSpec => []DefaultInv
  BY <1>1, <1>2, PTL DEF StationSpec
<1> QED BY <1>3, OneDefault, PTL
-----------------------------------------------------------------------------
(***************************************************************************)
(* LoginCodes.  While the number is not blocked, every comparison is in    *)
(* the failure counter, in a verifier that has yet to count it or to set   *)
(* the block, or died with its process; the counter is below the threshold *)
(* unless a verifier is about to block.  Once it is blocked, only the      *)
(* verifiers that had looked before may still compare.                     *)
(***************************************************************************)
Stages == {"idle", "checked", "wrong", "fail", "block", "right", "clear"}
GuessRecord(x) == x \in [pc: Stages, id: {x.id}, gen: {x.gen}, sid: {x.sid}]
CodeRecord == [id: Nat, attempts: Nat, tried: Nat]

In(g, P) == {v \in Verifiers : g[v].pc \in P}
WrongOn(g, i) == {v \in Verifiers : g[v].pc = "wrong" /\ g[v].id = i}
Counting == {"wrong", "fail", "block"}
Low(n) == IF n < FailThreshold THEN n ELSE FailThreshold - 1
Crowd == Cardinality(Verifiers)

MeterTyped ==
    /\ DOMAIN guess = Verifiers /\ \A v \in Verifiers : guess[v] = Waiting \/ GuessRecord(guess[v])
    /\ fails.n \in Nat /\ guessed \in Nat /\ died \in Nat /\ blocked \in BOOLEAN
    /\ issued \in Nat /\ sending \in Nat /\ issued + sending <= MaxCodes
    /\ codes \subseteq CodeRecord /\ \A c \in codes : c.id <= issued

GuessBound ==
    /\ ~blocked => guessed <= Low(fails.n) + Cardinality(In(guess, Counting)) + died
    /\ blocked => guessed + Cardinality(In(guess, {"checked"})) <= FailThreshold - 1 + Crowd + died

CodeBound ==
    \A c \in codes : /\ c.tried <= c.attempts + Cardinality(WrongOn(guess, c.id)) + died
                     /\ c.tried <= MaxAttempts + Crowd - 1 + died

MeterInv == MeterTyped /\ GuessBound /\ CodeBound

\* Two sets of verifiers that differ in one at most.
LEMMA CrowdIsFinite ==
    /\ Crowd \in Nat /\ Crowd >= 1
    /\ \A S \in SUBSET Verifiers : IsFiniteSet(S) /\ Cardinality(S) \in Nat /\ Cardinality(S) <= Crowd
<1>1. IsFiniteSet(Verifiers) /\ Verifiers # {}
  BY LoginCodesAssumption
<1>2. ASSUME NEW S \in SUBSET Verifiers
      PROVE  IsFiniteSet(S) /\ Cardinality(S) \in Nat /\ Cardinality(S) <= Crowd
  BY <1>1, FS_Subset, FS_CardinalityType, Zenon DEF Crowd
<1>3. PICK v \in Verifiers : TRUE
  BY <1>1
<1>4. {v} \in SUBSET Verifiers /\ Verifiers \in SUBSET Verifiers
  OBVIOUS
<1>5. Cardinality({v}) = 1
  BY FS_Singleton, Zenon
<1>6. 1 <= Crowd
  BY <1>2, <1>4, <1>5, Zenon
<1>7. Crowd \in Nat
  BY <1>2, <1>4, Zenon DEF Crowd
<1>8. Crowd >= 1
  BY <1>6, <1>7
<1> QED BY <1>2, <1>7, <1>8, Zenon

LEMMA CrowdChange ==
    ASSUME NEW S \in SUBSET Verifiers, NEW T \in SUBSET Verifiers, NEW v \in Verifiers, S \ {v} = T \ {v}
    PROVE  /\ Cardinality(S) \in Nat /\ Cardinality(T) \in Nat /\ Crowd \in Nat
           /\ Cardinality(S) <= Crowd /\ Cardinality(T) <= Crowd
           /\ (v \in S <=> v \in T) => Cardinality(T) = Cardinality(S)
           /\ v \notin S /\ v \in T => Cardinality(T) = Cardinality(S) + 1
           /\ v \in S /\ v \notin T => Cardinality(T) = Cardinality(S) - 1
           /\ v \notin S => Cardinality(S) <= Crowd - 1
<1>1. /\ IsFiniteSet(S) /\ Cardinality(S) \in Nat /\ IsFiniteSet(T) /\ Cardinality(T) \in Nat /\ Crowd \in Nat
      /\ Cardinality(S) <= Crowd /\ Cardinality(T) <= Crowd
  BY CrowdIsFinite, Zenon
<1>2. (v \in S <=> v \in T) => T = S
  OBVIOUS
<1>3. v \notin S /\ v \in T => T = S \cup {v}
  OBVIOUS
<1>4. v \in S /\ v \notin T => T = S \ {v}
  OBVIOUS
<1>5. v \notin S => Cardinality(S \cup {v}) = Cardinality(S) + 1
  BY <1>1, FS_AddElement, Zenon
<1>6. v \in S => Cardinality(S \ {v}) = Cardinality(S) - 1
  BY <1>1, FS_RemoveElement, Zenon
<1>7. v \notin S => Cardinality(S) <= Crowd - 1
  <2>1. S \cup {v} \in SUBSET Verifiers
    OBVIOUS
  <2>2. Cardinality(S \cup {v}) <= Crowd
    BY <2>1, CrowdIsFinite, Zenon
  <2> QED BY <1>1, <1>5, <2>2
<1>8. v \notin S /\ v \in T => Cardinality(T) = Cardinality(S) + 1
  BY <1>3, <1>5, Zenon
<1>9. v \in S /\ v \notin T => Cardinality(T) = Cardinality(S) - 1
  BY <1>4, <1>6, Zenon
<1>10. (v \in S <=> v \in T) => Cardinality(T) = Cardinality(S)
  BY <1>2, Zenon
<1> QED BY <1>1, <1>7, <1>8, <1>9, <1>10, Zenon

\* One verifier changes.
Differs(g, h, v) == \A w \in Verifiers : w # v => h[w] = g[w]

LEMMA StageChange ==
    ASSUME NEW g, NEW h, NEW v \in Verifiers, Differs(g, h, v), NEW P
    PROVE  LET a == Cardinality(In(g, P))
               b == Cardinality(In(h, P))
           IN  /\ a \in Nat /\ b \in Nat /\ Crowd \in Nat /\ a <= Crowd /\ b <= Crowd
               /\ (g[v].pc \in P <=> h[v].pc \in P) => b = a
               /\ g[v].pc \notin P /\ h[v].pc \in P => b = a + 1
               /\ g[v].pc \in P /\ h[v].pc \notin P => b = a - 1
               /\ g[v].pc \notin P => a <= Crowd - 1
<1>1. In(g, P) \in SUBSET Verifiers /\ In(h, P) \in SUBSET Verifiers /\ In(g, P) \ {v} = In(h, P) \ {v}
  BY DEF In, Differs
<1>2. (v \in In(g, P) <=> g[v].pc \in P) /\ (v \in In(h, P) <=> h[v].pc \in P)
  BY DEF In
<1> HIDE DEF In
<1> DEFINE S == In(g, P)
           T == In(h, P)
<1> HIDE DEF S, T
<1>3. S \in SUBSET Verifiers /\ T \in SUBSET Verifiers /\ S \ {v} = T \ {v}
  BY <1>1 DEF S, T
<1>4. /\ Cardinality(S) \in Nat /\ Cardinality(T) \in Nat /\ Crowd \in Nat
      /\ Cardinality(S) <= Crowd /\ Cardinality(T) <= Crowd
      /\ (v \in S <=> v \in T) => Cardinality(T) = Cardinality(S)
      /\ v \notin S /\ v \in T => Cardinality(T) = Cardinality(S) + 1
      /\ v \in S /\ v \notin T => Cardinality(T) = Cardinality(S) - 1
      /\ v \notin S => Cardinality(S) <= Crowd - 1
  BY <1>3, CrowdChange, Zenon
<1> QED BY <1>2, <1>4, Zenon DEF S, T

LEMMA WrongChange ==
    ASSUME NEW g, NEW h, NEW v \in Verifiers, Differs(g, h, v), NEW i
    PROVE  LET a == Cardinality(WrongOn(g, i))
               b == Cardinality(WrongOn(h, i))
           IN  /\ a \in Nat /\ b \in Nat /\ Crowd \in Nat /\ a <= Crowd /\ b <= Crowd
               /\ b >= a - 1
               /\ g[v].pc # "wrong" => b >= a /\ a <= Crowd - 1
               /\ g[v].id # i => b >= a
               /\ g[v].pc # "wrong" /\ h[v].pc = "wrong" /\ h[v].id = i => b = a + 1
<1> DEFINE S == WrongOn(g, i)
           T == WrongOn(h, i)
<1>1. S \in SUBSET Verifiers /\ T \in SUBSET Verifiers /\ S \ {v} = T \ {v}
  BY DEF WrongOn, Differs
<1>2. (v \in S => g[v].pc = "wrong" /\ g[v].id = i) /\ (h[v].pc = "wrong" /\ h[v].id = i => v \in T)
  BY DEF WrongOn
<1> HIDE DEF S, T
<1>3. /\ Cardinality(S) \in Nat /\ Cardinality(T) \in Nat /\ Crowd \in Nat
      /\ Cardinality(S) <= Crowd /\ Cardinality(T) <= Crowd
      /\ (v \in S <=> v \in T) => Cardinality(T) = Cardinality(S)
      /\ v \notin S /\ v \in T => Cardinality(T) = Cardinality(S) + 1
      /\ v \in S /\ v \notin T => Cardinality(T) = Cardinality(S) - 1
      /\ v \notin S => Cardinality(S) <= Crowd - 1
  BY <1>1, CrowdChange, Zenon
<1>4. Cardinality(T) >= Cardinality(S) - 1 /\ (v \notin S => Cardinality(T) >= Cardinality(S))
  BY <1>3
<1> QED BY <1>2, <1>3, <1>4, Zenon DEF S, T

\* Arithmetic the bounds share.
LEMMA MoreSlack == \A x, d, e \in Nat : d <= e => x + d <= x + e
OBVIOUS

LEMMA Slack == \A g, x, d, e \in Nat : g <= x + d /\ d <= e => g <= x + e
OBVIOUS

LEMMA Within == \A k, x, d \in Nat : k <= x => 0 + k <= x + d
OBVIOUS

LEMMA NotBelow == \A x, d \in Nat : 0 <= x + d
OBVIOUS

\* No code is compared with: the bounds of each stand when none of its guesses is lost uncounted.
LEMMA CodeQuiet ==
    ASSUME MeterInv, codes' \subseteq codes, died' \in Nat, died <= died',
           \A c \in codes : /\ Cardinality(WrongOn(guess, c.id)) \in Nat /\ Cardinality(WrongOn(guess', c.id)) \in Nat
                            /\ Cardinality(WrongOn(guess, c.id)) + died <= Cardinality(WrongOn(guess', c.id)) + died'
    PROVE  CodeBound'
<1>1. ASSUME NEW c \in codes'
      PROVE  /\ c.tried <= c.attempts + Cardinality(WrongOn(guess', c.id)) + died'
             /\ c.tried <= MaxAttempts + Crowd - 1 + died'
  <2> DEFINE a == Cardinality(WrongOn(guess, c.id))
             b == Cardinality(WrongOn(guess', c.id))
  <2>1. c \in codes /\ c.tried \in Nat /\ c.attempts \in Nat /\ died \in Nat
    BY <1>1 DEF MeterInv, MeterTyped, CodeRecord
  <2>2. a \in Nat /\ b \in Nat /\ a + died <= b + died'
    BY <2>1, Zenon
  <2>3. c.tried <= c.attempts + a + died /\ c.tried <= MaxAttempts + Crowd - 1 + died
    BY <2>1, Zenon DEF MeterInv, CodeBound
  <2>4. MaxAttempts \in Nat /\ Crowd \in Nat
    BY LoginCodesAssumption, CrowdIsFinite
  <2> HIDE DEF a, b
  <2>5. \A t, n, x, y, d, e, m, w \in Nat :
            x + d <= y + e /\ d <= e /\ t <= n + x + d /\ t <= m + w - 1 + d => t <= n + y + e /\ t <= m + w - 1 + e
    OBVIOUS
  <2>6. c.tried <= c.attempts + b + died' /\ c.tried <= MaxAttempts + Crowd - 1 + died'
    BY <2>1, <2>2, <2>3, <2>4, <2>5, Zenon
  <2> QED BY <2>6 DEF b
<1> QED BY <1>1, Zenon DEF CodeBound

\* The same when one verifier moves: it was not holding an uncounted guess, or it died.
LEMMA CodeMoves ==
    ASSUME MeterInv, NEW v \in Verifiers, Differs(guess, guess', v), codes' \subseteq codes,
           \/ guess[v].pc # "wrong" /\ died' = died
           \/ died' = died + 1
    PROVE  CodeBound'
<1>1. died \in Nat /\ died' \in Nat /\ died <= died'
  BY DEF MeterInv, MeterTyped
<1>2. ASSUME NEW c \in codes
      PROVE  /\ Cardinality(WrongOn(guess, c.id)) \in Nat /\ Cardinality(WrongOn(guess', c.id)) \in Nat
             /\ Cardinality(WrongOn(guess, c.id)) + died <= Cardinality(WrongOn(guess', c.id)) + died'
  <2> DEFINE a == Cardinality(WrongOn(guess, c.id))
             b == Cardinality(WrongOn(guess', c.id))
  <2>1. a \in Nat /\ b \in Nat /\ b >= a - 1 /\ (guess[v].pc # "wrong" => b >= a)
    BY WrongChange, Zenon
  <2> HIDE DEF a, b
  <2>2. a + died <= b + died'
    <3>1. CASE guess[v].pc # "wrong" /\ died' = died
      <4>1. a + died <= b + died
        BY <1>1, <2>1, <3>1
      <4> QED BY <3>1, <4>1, Zenon
    <3>2. CASE died' = died + 1
      <4>1. a + died <= b + (died + 1)
        BY <1>1, <2>1
      <4> QED BY <3>2, <4>1, Zenon
    <3> QED BY <3>1, <3>2
  <2> QED BY <2>1, <2>2, Zenon DEF a, b
<1> QED BY <1>1, <1>2, CodeQuiet

\* Nobody moves.
LEMMA CodeStays ==
    ASSUME MeterInv, UNCHANGED guess, codes' \subseteq codes, died' \in Nat, died <= died'
    PROVE  CodeBound'
<1>1. ASSUME NEW c \in codes
      PROVE  /\ Cardinality(WrongOn(guess, c.id)) \in Nat /\ Cardinality(WrongOn(guess', c.id)) \in Nat
             /\ Cardinality(WrongOn(guess, c.id)) + died <= Cardinality(WrongOn(guess', c.id)) + died'
  <2> DEFINE a == Cardinality(WrongOn(guess, c.id))
  <2>1. WrongOn(guess, c.id) \in SUBSET Verifiers
    BY DEF WrongOn
  <2>2. a \in Nat
    BY <2>1, CrowdIsFinite, Zenon
  <2>3. died \in Nat
    BY DEF MeterInv, MeterTyped
  <2> HIDE DEF a
  <2>4. a + died <= a + died'
    BY <2>2, <2>3, MoreSlack, Zenon
  <2>5. Cardinality(WrongOn(guess', c.id)) = a
    BY Zenon DEF a
  <2> QED BY <2>2, <2>4, <2>5, Zenon DEF a
<1> QED BY <1>1, CodeQuiet

LEMMA LowIs == ASSUME NEW n \in Nat PROVE /\ Low(n) \in Nat /\ Low(n) <= FailThreshold - 1 /\ FailThreshold \in Nat
                                          /\ FailThreshold >= 1 /\ Low(n) <= n
BY LoginCodesAssumption DEF Low

\* The count of guesses when nobody moves.
LEMMA GuessStays ==
    ASSUME MeterInv, UNCHANGED <<guess, blocked, fails>>, guessed' \in {0, guessed}, died' \in Nat, died <= died'
    PROVE  GuessBound'
<1> DEFINE a == Cardinality(In(guess, Counting))
           k == Cardinality(In(guess, {"checked"}))
<1>1. In(guess, Counting) \in SUBSET Verifiers /\ In(guess, {"checked"}) \in SUBSET Verifiers
  BY DEF In
<1>2. a \in Nat /\ k \in Nat /\ k <= Crowd /\ Crowd \in Nat
  BY <1>1, CrowdIsFinite, Zenon
<1>3. guessed \in Nat /\ died \in Nat /\ fails.n \in Nat
  BY DEF MeterInv, MeterTyped
<1>4. Low(fails.n) \in Nat /\ FailThreshold \in Nat /\ FailThreshold >= 1
  BY <1>3, LowIs
<1>5. /\ ~blocked => guessed <= Low(fails.n) + a + died
      /\ blocked => guessed + k <= FailThreshold - 1 + Crowd + died
  BY Zenon DEF MeterInv, GuessBound
<1> HIDE DEF a, k
<1> DEFINE x == Low(fails.n) + a
           y == FailThreshold - 1 + Crowd
<1>6. x \in Nat /\ y \in Nat /\ k <= y /\ guessed + k \in Nat
  BY <1>2, <1>3, <1>4
<1> HIDE DEF x, y
<1>7. ~blocked => guessed' <= x + died'
  <2>1. CASE guessed' = guessed
    <3>1. ~blocked => guessed <= x + died
      BY <1>5 DEF x
    <3> QED BY <1>3, <1>6, <2>1, <3>1, Slack, Zenon
  <2>2. CASE guessed' = 0
    BY <1>6, <2>2, NotBelow, Zenon
  <2> QED BY <2>1, <2>2
<1>8. blocked => guessed' + k <= y + died'
  <2>1. CASE guessed' = guessed
    <3>1. blocked => guessed + k <= y + died
      BY <1>5 DEF y
    <3>2. blocked => guessed + k <= y + died'
      BY <1>3, <1>6, <3>1, Slack, Zenon
    <3> QED BY <2>1, <3>2, Zenon
  <2>2. CASE guessed' = 0
    <3>1. 0 + k <= y + died'
      BY <1>2, <1>6, Within, Zenon
    <3> QED BY <2>2, <3>1, Zenon
  <2> QED BY <2>1, <2>2
<1> QED BY <1>7, <1>8, Zenon DEF GuessBound, a, k, x, y

\* The count of guesses when one verifier moves and none is made.
LEMMA GuessMoves ==
    ASSUME MeterInv, NEW v \in Verifiers, Differs(guess, guess', v), UNCHANGED <<blocked, guessed>>,
           fails'.n \in Nat, died' \in Nat, died <= died',
           blocked => guess'[v].pc # "checked",
           ~blocked =>
              \/ Low(fails.n) <= Low(fails'.n) /\ died' = died + 1
              \/ Low(fails.n) <= Low(fails'.n) /\ (guess[v].pc \in Counting => guess'[v].pc \in Counting)
              \/ Low(fails.n) + 1 <= Low(fails'.n)
    PROVE  GuessBound'
<1> DEFINE a == Cardinality(In(guess, Counting))
           b == Cardinality(In(guess', Counting))
           k == Cardinality(In(guess, {"checked"}))
           l == Cardinality(In(guess', {"checked"}))
<1>1. /\ a \in Nat /\ b \in Nat /\ b >= a - 1
      /\ (guess[v].pc \in Counting => guess'[v].pc \in Counting) => b >= a
  <2>1. /\ a \in Nat /\ b \in Nat
        /\ (guess[v].pc \in Counting <=> guess'[v].pc \in Counting) => b = a
        /\ guess[v].pc \notin Counting /\ guess'[v].pc \in Counting => b = a + 1
        /\ guess[v].pc \in Counting /\ guess'[v].pc \notin Counting => b = a - 1
    BY StageChange
  <2> HIDE DEF a, b, Counting
  <2> QED BY <2>1
<1>2. k \in Nat /\ l \in Nat /\ (guess'[v].pc # "checked" => l <= k)
  <2>1. /\ k \in Nat /\ l \in Nat
        /\ (guess[v].pc \in {"checked"} <=> guess'[v].pc \in {"checked"}) => l = k
        /\ guess[v].pc \in {"checked"} /\ guess'[v].pc \notin {"checked"} => l = k - 1
    BY StageChange
  <2> HIDE DEF k, l
  <2> QED BY <2>1
<1>3. guessed \in Nat /\ died \in Nat /\ fails.n \in Nat /\ Crowd \in Nat
  BY CrowdIsFinite DEF MeterInv, MeterTyped
<1>4. Low(fails.n) \in Nat /\ Low(fails'.n) \in Nat /\ FailThreshold \in Nat /\ FailThreshold >= 1
  BY <1>3, LowIs
<1>5. /\ ~blocked => guessed <= Low(fails.n) + a + died
      /\ blocked => guessed + k <= FailThreshold - 1 + Crowd + died
  BY Zenon DEF MeterInv, GuessBound
<1> HIDE DEF a, b, k, l, Counting
<1>6. ~blocked => guessed <= Low(fails'.n) + b + died'
  BY <1>1, <1>3, <1>4, <1>5
<1>7. blocked => guessed + l <= FailThreshold - 1 + Crowd + died'
  BY <1>2, <1>3, <1>4, <1>5
<1> QED BY <1>6, <1>7, Zenon DEF GuessBound, b, l

\* The counters were cleared or lapsed.
LEMMA Cleared ==
    ASSUME MeterInv, guessed' = 0, fails'.n \in Nat, died' = died
    PROVE  GuessBound'
<1> DEFINE a == Cardinality(In(guess', Counting))
           k == Cardinality(In(guess', {"checked"}))
           x == Low(fails'.n) + a
           y == FailThreshold - 1 + Crowd
<1>1. In(guess', Counting) \in SUBSET Verifiers /\ In(guess', {"checked"}) \in SUBSET Verifiers
  BY DEF In
<1>2. a \in Nat /\ k \in Nat /\ k <= Crowd /\ Crowd \in Nat
  BY <1>1, CrowdIsFinite, Zenon
<1>3. Low(fails'.n) \in Nat /\ FailThreshold \in Nat /\ FailThreshold >= 1
  BY LowIs
<1>4. died \in Nat
  BY DEF MeterInv, MeterTyped
<1> HIDE DEF a, k
<1>5. x \in Nat /\ y \in Nat /\ k <= y
  BY <1>2, <1>3
<1> HIDE DEF x, y
<1>6. 0 <= x + died /\ 0 + k <= y + died
  BY <1>2, <1>4, <1>5, Within, NotBelow, Zenon
<1>7. guessed' <= x + died' /\ guessed' + k <= y + died'
  BY <1>6, Zenon
<1> QED BY <1>7, Zenon DEF GuessBound, a, k, x, y

\* A step in which no verifier moves and no code is stored.
LEMMA NobodyMoves ==
    ASSUME MeterInv, UNCHANGED <<guess, blocked, fails, guessed, issued>>, codes' \subseteq codes,
           died' \in Nat, died <= died', sending' \in Nat, issued + sending' <= MaxCodes
    PROVE  MeterInv'
<1>1. MeterTyped'
  <2>1. MeterTyped
    BY DEF MeterInv
  <2>2. issued' + sending' <= MaxCodes
    BY Zenon
  <2>3. codes' \subseteq CodeRecord /\ \A c \in codes' : c.id <= issued'
    BY <2>1, Zenon DEF MeterTyped
  <2> QED BY <2>1, <2>2, <2>3, Zenon DEF MeterTyped
<1>2. GuessBound'
  BY GuessStays
<1>3. CodeBound'
  BY CodeStays
<1> QED BY <1>1, <1>2, <1>3 DEF MeterInv

LEMMA RequestMetered ==
    ASSUME MeterInv, RegisterCodeRequest \/ ChallengeRequired \/ RequestDies
    PROVE  MeterInv'
<1>1. UNCHANGED <<guess, blocked, fails, guessed, issued>>
  BY Zenon DEF RegisterCodeRequest, ChallengeRequired, RequestDies
<1>2. \/ died' = died /\ codes' = codes /\ sending' = sending
      \/ died' = died /\ codes' = {} /\ sending' = sending + 1 /\ issued + sending < MaxCodes
      \/ died' = died + 1 /\ codes' = codes /\ sending' = sending
  BY Zenon DEF RegisterCodeRequest, ChallengeRequired, RequestDies, Supersede
<1>3. /\ died \in Nat /\ sending \in Nat /\ issued \in Nat /\ issued + sending <= MaxCodes /\ MaxCodes \in Nat
  BY LoginCodesAssumption DEF MeterInv, MeterTyped
<1>4. codes' \subseteq codes
  BY <1>2
<1>5. died' \in Nat /\ died <= died'
  BY <1>2, <1>3
<1>6. sending' \in Nat /\ issued + sending' <= MaxCodes
  <2>1. CASE sending' = sending
    BY <1>3, <2>1, Zenon
  <2>2. CASE sending' = sending + 1 /\ issued + sending < MaxCodes
    <3>1. sending + 1 \in Nat /\ issued + (sending + 1) <= MaxCodes
      BY <1>3, <2>2
    <3> QED BY <2>2, <3>1, Zenon
  <2> QED BY <1>2, <2>1, <2>2
<1> QED BY <1>1, <1>4, <1>5, <1>6, NobodyMoves

LEMMA LapseMetered == ASSUME MeterInv, LapseNext PROVE MeterInv'
<1>1. UNCHANGED <<sending, issued, guess, died>> /\ Lapse
  BY Zenon DEF LapseNext
<1>2. /\ codes' \subseteq codes
      /\ \/ UNCHANGED <<fails, blocked, guessed>>
         \/ fails' = Zero /\ guessed' = 0 /\ blocked' = blocked
         \/ fails' = fails /\ guessed' = 0 /\ blocked' = FALSE
  <2>1. codes' = codes \/ \E c \in codes : codes' = codes \ {c}
    BY <1>1, Zenon DEF Lapse
  <2>2. codes' \subseteq codes
    BY <2>1
  <2> QED BY <1>1, <2>2, Zenon DEF Lapse
<1>3. MeterTyped
  BY DEF MeterInv
<1>4. died \in Nat /\ sending \in Nat /\ issued + sending <= MaxCodes /\ fails.n \in Nat /\ blocked \in BOOLEAN
  BY <1>3 DEF MeterTyped
<1>5. CASE UNCHANGED <<fails, blocked, guessed>>
  <2>1. died' \in Nat /\ died <= died'
    BY <1>1, <1>4
  <2>2. sending' \in Nat /\ issued + sending' <= MaxCodes
    BY <1>1, <1>4, Zenon
  <2> QED BY <1>1, <1>2, <1>5, <2>1, <2>2, NobodyMoves
<1>6. CASE guessed' = 0 /\ (fails' = Zero \/ fails' = fails) /\ (blocked' = blocked \/ blocked' = FALSE)
  <2>1. fails'.n \in Nat
    BY <1>4, <1>6 DEF Zero
  <2>2. GuessBound'
    BY <1>1, <1>6, <2>1, Cleared, Zenon
  <2>3. died' \in Nat /\ died <= died'
    BY <1>1, <1>4
  <2>4. CodeBound'
    BY <1>1, <1>2, <2>3, CodeStays, Zenon
  <2>5. MeterTyped'
    <3>1. 0 \in Nat
      OBVIOUS
    <3>2. blocked' \in BOOLEAN
      BY <1>4, <1>6
    <3>3. codes' \subseteq CodeRecord /\ \A c \in codes' : c.id <= issued'
      BY <1>1, <1>2, <1>3, Zenon DEF MeterTyped
    <3> QED BY <1>1, <1>3, <1>6, <2>1, <3>1, <3>2, <3>3, Zenon DEF MeterTyped
  <2> QED BY <2>2, <2>4, <2>5 DEF MeterInv
<1> QED BY <1>2, <1>5, <1>6, Zenon

LEMMA CreateMetered == ASSUME MeterInv, CreateCode PROVE MeterInv'
<1> DEFINE new == [id |-> issued + 1, attempts |-> 0, tried |-> 0]
<1>1. /\ codes' = codes \cup {new} /\ issued' = issued + 1 /\ sending' = sending - 1 /\ sending > 0
      /\ UNCHANGED <<guess, fails, blocked, guessed, died>>
  BY Zenon DEF CreateCode
<1>2. MeterTyped
  BY DEF MeterInv
<1>3. issued \in Nat /\ sending \in Nat /\ issued + sending <= MaxCodes /\ died \in Nat /\ MaxCodes \in Nat /\ MaxAttempts \in Nat
  BY <1>2, LoginCodesAssumption DEF MeterTyped
<1>4. new \in CodeRecord /\ new.id = issued + 1 /\ new.attempts = 0 /\ new.tried = 0
  BY <1>3 DEF CodeRecord
<1> HIDE DEF new
<1>5. issued + 1 \in Nat /\ sending - 1 \in Nat /\ (issued + 1) + (sending - 1) <= MaxCodes
  BY <1>1, <1>3
<1>6. \A c \in codes' : c \in CodeRecord /\ c.id <= issued + 1
  <2>1. ASSUME NEW c \in codes PROVE c \in CodeRecord /\ c.id <= issued + 1
    <3>1. c \in CodeRecord /\ c.id <= issued
      BY <1>2, <2>1, Zenon DEF MeterTyped
    <3>2. c.id \in Nat
      BY <3>1 DEF CodeRecord
    <3> QED BY <1>3, <3>1, <3>2
  <2>2. new.id <= issued + 1
    BY <1>3, <1>4
  <2> QED BY <1>1, <1>4, <2>1, <2>2, Zenon
<1>7. MeterTyped'
  <2>1. issued' \in Nat /\ sending' \in Nat /\ issued' + sending' <= MaxCodes
    BY <1>1, <1>5, Zenon
  <2>2. codes' \subseteq CodeRecord /\ \A c \in codes' : c.id <= issued'
    BY <1>1, <1>6, Zenon
  <2> QED BY <1>1, <1>2, <2>1, <2>2, Zenon DEF MeterTyped
<1>8. GuessBound'
  BY <1>1, Zenon DEF MeterInv, GuessBound
<1>9. CodeBound'
  <2>1. ASSUME NEW c \in codes
        PROVE  /\ c.tried <= c.attempts + Cardinality(WrongOn(guess, c.id)) + died
               /\ c.tried <= MaxAttempts + Crowd - 1 + died
    BY <2>1, Zenon DEF MeterInv, CodeBound
  <2>2. /\ new.tried <= new.attempts + Cardinality(WrongOn(guess, new.id)) + died
        /\ new.tried <= MaxAttempts + Crowd - 1 + died
    <3> DEFINE a == Cardinality(WrongOn(guess, new.id))
    <3>1. WrongOn(guess, new.id) \in SUBSET Verifiers
      BY DEF WrongOn
    <3>2. a \in Nat /\ Crowd \in Nat /\ Crowd >= 1
      BY <3>1, CrowdIsFinite, Zenon
    <3> HIDE DEF a
    <3>3. 0 <= 0 + a + died /\ 0 <= MaxAttempts + Crowd - 1 + died
      BY <1>3, <3>2
    <3> QED BY <1>4, <3>3, Zenon DEF a
  <2>3. ASSUME NEW c \in codes'
        PROVE  /\ c.tried <= c.attempts + Cardinality(WrongOn(guess, c.id)) + died
               /\ c.tried <= MaxAttempts + Crowd - 1 + died
    BY <1>1, <2>1, <2>2, <2>3, Zenon
  <2> QED BY <1>1, <2>3, Zenon DEF CodeBound
<1> QED BY <1>7, <1>8, <1>9 DEF MeterInv

\* What the other steps share: one verifier's record is replaced.
LEMMA TypedMove ==
    ASSUME MeterInv, NEW v \in Verifiers, NEW r, r = Waiting \/ GuessRecord(r), guess' = [guess EXCEPT ![v] = r]
    PROVE  /\ DOMAIN guess' = Verifiers /\ Differs(guess, guess', v) /\ guess'[v] = r
           /\ \A w \in Verifiers : guess'[w] = Waiting \/ GuessRecord(guess'[w])
<1>1. DOMAIN guess = Verifiers /\ \A w \in Verifiers : guess[w] = Waiting \/ GuessRecord(guess[w])
  BY DEF MeterInv, MeterTyped
<1>2. DOMAIN guess' = Verifiers /\ guess'[v] = r /\ \A w \in Verifiers : w # v => guess'[w] = guess[w]
  BY <1>1
<1> QED BY <1>1, <1>2, Zenon DEF Differs

LEMMA MoveMetered ==
    ASSUME MeterInv, NEW v \in Verifiers, NEW r, r = Waiting \/ GuessRecord(r), guess' = [guess EXCEPT ![v] = r],
           UNCHANGED <<issued, sending>>, codes' \subseteq codes, fails'.n \in Nat, guessed' \in Nat, died' \in Nat,
           blocked' \in BOOLEAN, GuessBound', (guess[v].pc # "wrong" /\ died' = died) \/ died' = died + 1
    PROVE  MeterInv'
<1>1. MeterTyped
  BY DEF MeterInv
<1>2. /\ DOMAIN guess' = Verifiers /\ Differs(guess, guess', v)
      /\ \A w \in Verifiers : guess'[w] = Waiting \/ GuessRecord(guess'[w])
  BY TypedMove, Zenon
<1>3. codes' \subseteq CodeRecord /\ \A c \in codes' : c.id <= issued'
  BY <1>1, Zenon DEF MeterTyped
<1>4. MeterTyped'
  BY <1>1, <1>2, <1>3, Zenon DEF MeterTyped
<1>5. CodeBound'
  BY <1>2, CodeMoves, Zenon
<1> QED BY <1>4, <1>5 DEF MeterInv

LEMMA LookMetered == ASSUME MeterInv, NEW v \in Verifiers, AssertNotBlocked(v) PROVE MeterInv'
<1> DEFINE r == Idle("checked")
<1>1. /\ guess[v] = Waiting /\ ~blocked /\ guess' = [guess EXCEPT ![v] = r]
      /\ UNCHANGED <<codes, issued, sending, fails, guessed, died, blocked>>
  BY Zenon DEF AssertNotBlocked
<1>2. GuessRecord(r) /\ r.pc = "checked"
  BY DEF Idle, GuessRecord, Stages
<1> HIDE DEF r
<1>3. Differs(guess, guess', v) /\ guess'[v] = r
  BY <1>1, <1>2, TypedMove, Zenon
<1>4. guess[v].pc = "idle" /\ guess[v].pc # "wrong" /\ guess[v].pc \notin Counting
  BY <1>1 DEF Waiting, Counting
<1>5. fails'.n \in Nat /\ guessed' \in Nat /\ died' \in Nat /\ died <= died' /\ blocked' \in BOOLEAN
  BY <1>1 DEF MeterInv, MeterTyped
<1>6. Low(fails.n) <= Low(fails'.n)
  <2>1. Low(fails.n) \in Nat
    BY LowIs DEF MeterInv, MeterTyped
  <2>2. Low(fails.n) <= Low(fails.n)
    BY <2>1
  <2> QED BY <1>1, <2>2, Zenon
<1>7. GuessBound'
  BY <1>1, <1>3, <1>4, <1>5, <1>6, GuessMoves, Zenon
<1>8. codes' \subseteq codes
  BY <1>1
<1> QED BY <1>1, <1>2, <1>4, <1>5, <1>7, <1>8, MoveMetered, Zenon

\* A verifier moves on and the failures it counts are none fewer.
LEMMA PassOn ==
    ASSUME MeterInv, NEW v \in Verifiers, NEW r, GuessRecord(r), guess' = [guess EXCEPT ![v] = r],
           UNCHANGED <<issued, sending, blocked, guessed, died>>, codes' \subseteq codes,
           fails'.n \in Nat, Low(fails.n) <= Low(fails'.n), guess[v].pc # "wrong", r.pc # "checked",
           guess[v].pc \in Counting => r.pc \in Counting
    PROVE  MeterInv'
<1>1. Differs(guess, guess', v) /\ guess'[v] = r
  BY TypedMove, Zenon
<1>2. guessed' \in Nat /\ died' \in Nat /\ died <= died' /\ blocked' \in BOOLEAN
  BY DEF MeterInv, MeterTyped
<1>3. GuessBound'
  BY <1>1, <1>2, GuessMoves, Zenon
<1> QED BY <1>2, <1>3, MoveMetered, Zenon

LEMMA LowStays == ASSUME MeterInv, UNCHANGED fails PROVE fails'.n \in Nat /\ Low(fails.n) <= Low(fails'.n)
<1>1. fails.n \in Nat /\ Low(fails.n) \in Nat
  BY LowIs DEF MeterInv, MeterTyped
<1>2. Low(fails.n) <= Low(fails.n)
  BY <1>1
<1> QED BY <1>1, <1>2, Zenon

\* There is a newest code.
LEMMA NewestIsACode == ASSUME MeterInv, codes # {} PROVE Newest \in codes
<1> DEFINE Ages == {n \in Nat : \E c \in codes : c.id = MaxCodes - n}
<1>1. MaxCodes \in Nat /\ \A c \in codes : c.id \in Nat /\ c.id <= MaxCodes
  <2>1. MaxCodes \in Nat /\ issued \in Nat /\ sending \in Nat /\ issued + sending <= MaxCodes
    BY LoginCodesAssumption DEF MeterInv, MeterTyped
  <2>2. ASSUME NEW c \in codes PROVE c.id \in Nat /\ c.id <= issued
    BY DEF MeterInv, MeterTyped, CodeRecord
  <2> QED BY <2>1, <2>2
<1>2. PICK c \in codes : TRUE
  OBVIOUS
<1>3. MaxCodes - c.id \in Ages
  <2>1. MaxCodes - c.id \in Nat /\ c.id = MaxCodes - (MaxCodes - c.id)
    BY <1>1, <1>2
  <2> QED BY <1>2, <2>1, Zenon
<1>4. Ages \subseteq Nat /\ Ages # {}
  BY <1>3, Zenon
<1> HIDE DEF Ages
<1>5. PICK n \in Ages : \A m \in Ages : <<m, n>> \notin OpToRel(<, Nat)
  BY <1>4, NatLessThanWellFounded, WFMin, Zenon
<1>6. PICK d \in codes : d.id = MaxCodes - n /\ n \in Nat
  BY <1>5, Zenon DEF Ages
<1>7. ASSUME NEW x \in codes PROVE x.id <= d.id
  <2>1. MaxCodes - x.id \in Nat /\ x.id = MaxCodes - (MaxCodes - x.id)
    BY <1>1
  <2>2. MaxCodes - x.id \in Ages
    BY <2>1, Zenon DEF Ages
  <2>3. <<MaxCodes - x.id, n>> \notin OpToRel(<, Nat)
    BY <1>5, <2>2, Zenon
  <2>4. ~(MaxCodes - x.id < n)
    BY <1>6, <2>1, <2>3 DEF OpToRel
  <2> QED BY <1>1, <1>6, <2>1, <2>4
<1>8. \E e \in codes : \A x \in codes : x.id <= e.id
  BY <1>7, Zenon
<1> QED BY <1>8, Zenon DEF Newest

LEMMA OneMoreWrong ==
    ASSUME NEW g, NEW h, NEW v \in Verifiers, Differs(g, h, v), NEW i, g[v].pc # "wrong", h[v].pc = "wrong", h[v].id = i
    PROVE  /\ Cardinality(WrongOn(g, i)) \in Nat /\ Cardinality(WrongOn(g, i)) <= Crowd - 1
           /\ Cardinality(WrongOn(h, i)) = Cardinality(WrongOn(g, i)) + 1
BY WrongChange, Zenon

LEMMA GuessCounted ==
    ASSUME MeterInv, NEW v \in Verifiers, Differs(guess, guess', v), guess[v].pc = "checked", guess'[v].pc = "wrong",
           guessed' = guessed + 1, UNCHANGED <<fails, blocked, died>>
    PROVE  GuessBound'
<1>0. guessed \in Nat /\ died \in Nat /\ fails.n \in Nat /\ Crowd \in Nat
  BY CrowdIsFinite DEF MeterInv, MeterTyped
<1> DEFINE a == Cardinality(In(guess, Counting))
           b == Cardinality(In(guess', Counting))
           k == Cardinality(In(guess, {"checked"}))
           l == Cardinality(In(guess', {"checked"}))
<1>1. a \in Nat /\ (guess[v].pc \notin Counting /\ guess'[v].pc \in Counting => b = a + 1)
  BY StageChange
<1>2. k \in Nat /\ (guess[v].pc \in {"checked"} /\ guess'[v].pc \notin {"checked"} => l = k - 1)
  BY StageChange
<1> HIDE DEF a, b, k, l
<1>3. b = a + 1 /\ l = k - 1
  BY <1>1, <1>2 DEF Counting
<1>4. /\ ~blocked => guessed <= Low(fails.n) + a + died
      /\ blocked => guessed + k <= FailThreshold - 1 + Crowd + died
  BY Zenon DEF MeterInv, GuessBound, a, k
<1>5. Low(fails.n) \in Nat /\ FailThreshold \in Nat
  BY <1>0, LowIs
<1>6. /\ ~blocked => guessed + 1 <= Low(fails.n) + (a + 1) + died
      /\ blocked => (guessed + 1) + (k - 1) <= FailThreshold - 1 + Crowd + died
  BY <1>0, <1>1, <1>2, <1>4, <1>5
<1>7. /\ ~blocked => guessed + 1 <= Low(fails.n) + b + died
      /\ blocked => (guessed + 1) + l <= FailThreshold - 1 + Crowd + died
  BY <1>3, <1>6, Zenon
<1> QED BY <1>7, Zenon DEF GuessBound, b, l

LEMMA CodeCounted ==
    ASSUME MeterInv, NEW v \in Verifiers, Differs(guess, guess', v), guess[v].pc = "checked", NEW n \in codes,
           n.attempts < MaxAttempts, guess'[v].pc = "wrong", guess'[v].id = n.id
    PROVE  /\ n.tried + 1 <= n.attempts + Cardinality(WrongOn(guess', n.id)) + died
           /\ n.tried + 1 <= MaxAttempts + Crowd - 1 + died
<1> DEFINE a == Cardinality(WrongOn(guess, n.id))
           b == Cardinality(WrongOn(guess', n.id))
<1>1. guess[v].pc # "wrong"
  OBVIOUS
<1>2. a \in Nat /\ a <= Crowd - 1 /\ b = a + 1
  BY <1>1, OneMoreWrong, Zenon
<1>3. n.tried <= n.attempts + a + died
  BY Zenon DEF MeterInv, CodeBound
<1>4. n.tried \in Nat /\ n.attempts \in Nat /\ died \in Nat /\ Crowd \in Nat /\ MaxAttempts \in Nat
  BY CrowdIsFinite, LoginCodesAssumption DEF MeterInv, MeterTyped, CodeRecord
<1> HIDE DEF a, b
<1>5. n.tried + 1 <= n.attempts + (a + 1) + died /\ n.tried + 1 <= MaxAttempts + Crowd - 1 + died
  BY <1>2, <1>3, <1>4
<1> QED BY <1>2, <1>5, Zenon DEF b

\* A wrong guess is compared with a code that has attempts left.
LEMMA WrongMetered ==
    ASSUME MeterInv, NEW v \in Verifiers, guess[v].pc = "checked", NEW n \in codes, n.attempts < MaxAttempts,
           NEW m, m \in CodeRecord, m.id = n.id, m.attempts = n.attempts, m.tried = n.tried + 1,
           codes' = (codes \ {n}) \cup {m}, guessed' = guessed + 1,
           NEW r, GuessRecord(r), r.pc = "wrong", r.id = n.id, guess' = [guess EXCEPT ![v] = r],
           UNCHANGED <<fails, blocked, sending, issued, died>>
    PROVE  MeterInv'
<1>1. MeterTyped
  BY DEF MeterInv
<1>2. /\ DOMAIN guess' = Verifiers /\ Differs(guess, guess', v) /\ guess'[v] = r
      /\ \A w \in Verifiers : guess'[w] = Waiting \/ GuessRecord(guess'[w])
  BY TypedMove, Zenon
<1>3. guessed \in Nat /\ died \in Nat /\ fails.n \in Nat /\ Crowd \in Nat /\ MaxAttempts \in Nat
  BY <1>1, CrowdIsFinite, LoginCodesAssumption DEF MeterTyped
<1>4. MeterTyped'
  <2>1. n.id <= issued
    BY <1>1, Zenon DEF MeterTyped
  <2>2. codes' \subseteq CodeRecord /\ \A c \in codes' : c.id <= issued'
    BY <1>1, <2>1, Zenon DEF MeterTyped
  <2>3. guessed' \in Nat
    BY <1>3
  <2> QED BY <1>1, <1>2, <2>2, <2>3, Zenon DEF MeterTyped
<1>5. GuessBound'
  <2>1. guess'[v].pc = "wrong"
    BY <1>2
  <2> QED BY <1>2, <2>1, GuessCounted, Zenon
<1>6. CodeBound'
  <2>1. ASSUME NEW c \in codes
        PROVE  /\ c.tried <= c.attempts + Cardinality(WrongOn(guess', c.id)) + died
               /\ c.tried <= MaxAttempts + Crowd - 1 + died
    <3> DEFINE a == Cardinality(WrongOn(guess, c.id))
               b == Cardinality(WrongOn(guess', c.id))
    <3>1. a \in Nat /\ b \in Nat /\ (guess[v].pc # "wrong" => b >= a)
      BY <1>2, WrongChange, Zenon
    <3>2. c.tried <= c.attempts + a + died /\ c.tried <= MaxAttempts + Crowd - 1 + died
      BY Zenon DEF MeterInv, CodeBound
    <3>3. c.tried \in Nat /\ c.attempts \in Nat
      BY <1>1 DEF MeterTyped, CodeRecord
    <3> HIDE DEF a, b
    <3>4. guess[v].pc # "wrong"
      OBVIOUS
    <3>5. c.tried <= c.attempts + b + died
      BY <1>3, <3>1, <3>2, <3>3, <3>4
    <3> QED BY <3>2, <3>5 DEF b
  <2>2. /\ m.tried <= m.attempts + Cardinality(WrongOn(guess', m.id)) + died
        /\ m.tried <= MaxAttempts + Crowd - 1 + died
    <3>1. guess'[v].pc = "wrong" /\ guess'[v].id = n.id
      BY <1>2
    <3>2. /\ n.tried + 1 <= n.attempts + Cardinality(WrongOn(guess', n.id)) + died
          /\ n.tried + 1 <= MaxAttempts + Crowd - 1 + died
      BY <1>2, <3>1, CodeCounted, Zenon
    <3> QED BY <3>2, Zenon
  <2>3. ASSUME NEW c \in codes'
        PROVE  /\ c.tried <= c.attempts + Cardinality(WrongOn(guess', c.id)) + died
               /\ c.tried <= MaxAttempts + Crowd - 1 + died
    <3>1. c \in codes \/ c = m
      BY <2>3
    <3> QED BY <2>1, <2>2, <3>1, Zenon
  <2> QED BY <2>3, Zenon DEF CodeBound
<1> QED BY <1>4, <1>5, <1>6 DEF MeterInv

LEMMA VerifyMetered == ASSUME MeterInv, NEW v \in Verifiers, VerifyCode(v) PROVE MeterInv'
<1> DEFINE rec(pc, i) == [pc |-> pc, id |-> i, gen |-> gen, sid |-> NoSid]
           m == [Newest EXCEPT !.tried = @ + 1]
<1>1. /\ guess[v].pc = "checked" /\ UNCHANGED <<fails, blocked, sending, issued, died>>
      /\ \/ guess' = [guess EXCEPT ![v] = rec("fail", 0)] /\ UNCHANGED <<codes, guessed>>
         \/ guess' = [guess EXCEPT ![v] = rec("right", Newest.id)] /\ UNCHANGED <<codes, guessed>>
         \/ /\ codes # {} /\ ~(Newest.attempts >= MaxAttempts)
            /\ codes' = (codes \ {Newest}) \cup {m} /\ guessed' = guessed + 1
            /\ guess' = [guess EXCEPT ![v] = rec("wrong", Newest.id)]
  BY Zenon DEF VerifyCode
<1>2. \A pc \in Stages : \A i : GuessRecord(rec(pc, i)) /\ rec(pc, i).pc = pc /\ rec(pc, i).id = i
  BY DEF GuessRecord
<1>3. {"fail", "right", "wrong"} \subseteq Stages /\ guess[v].pc \notin Counting /\ guess[v].pc # "wrong"
  BY <1>1 DEF Stages, Counting
<1> HIDE DEF rec
<1>4. fails'.n \in Nat /\ Low(fails.n) <= Low(fails'.n)
  BY <1>1, LowStays
<1>5. ASSUME NEW pc \in {"fail", "right"}, NEW i, guess' = [guess EXCEPT ![v] = rec(pc, i)], UNCHANGED <<codes, guessed>>
      PROVE  MeterInv'
  <2>1. GuessRecord(rec(pc, i)) /\ rec(pc, i).pc # "checked"
    BY <1>2, <1>3, <1>5
  <2>2. codes' \subseteq codes
    BY <1>5
  <2> QED BY <1>1, <1>3, <1>4, <1>5, <2>1, <2>2, PassOn, Zenon
<1>6. ASSUME codes # {}, ~(Newest.attempts >= MaxAttempts), codes' = (codes \ {Newest}) \cup {m}, guessed' = guessed + 1,
             guess' = [guess EXCEPT ![v] = rec("wrong", Newest.id)]
      PROVE  MeterInv'
  <2>1. Newest \in codes
    BY <1>6, NewestIsACode
  <2>2. Newest \in CodeRecord
    BY <2>1 DEF MeterInv, MeterTyped
  <2>3. m \in CodeRecord /\ m.id = Newest.id /\ m.attempts = Newest.attempts /\ m.tried = Newest.tried + 1
    BY <2>2 DEF CodeRecord
  <2>4. Newest.attempts < MaxAttempts
    BY <1>6, <2>2, LoginCodesAssumption DEF CodeRecord
  <2>5. GuessRecord(rec("wrong", Newest.id)) /\ rec("wrong", Newest.id).pc = "wrong" /\ rec("wrong", Newest.id).id = Newest.id
    BY <1>2, <1>3
  <2> HIDE DEF m
  <2> QED BY <1>1, <1>6, <2>1, <2>3, <2>4, <2>5, WrongMetered, Zenon
<1> QED BY <1>1, <1>5, <1>6, Zenon

\* A guess is entered on its code and is no longer the verifier's to enter.
LEMMA CodeEntered ==
    ASSUME MeterInv, NEW v \in Verifiers, Differs(guess, guess', v), NEW c \in codes, NEW m,
           (m = c /\ guess[v].id # c.id) \/ (m.id = c.id /\ m.tried = c.tried /\ m.attempts = c.attempts + 1)
    PROVE  /\ m.tried <= m.attempts + Cardinality(WrongOn(guess', m.id)) + died
           /\ m.tried <= MaxAttempts + Crowd - 1 + died
<1> DEFINE a == Cardinality(WrongOn(guess, c.id))
           b == Cardinality(WrongOn(guess', c.id))
<1>1. a \in Nat /\ b \in Nat /\ b >= a - 1 /\ (guess[v].id # c.id => b >= a)
  BY WrongChange, Zenon
<1>2. c.tried <= c.attempts + a + died /\ c.tried <= MaxAttempts + Crowd - 1 + died
  BY Zenon DEF MeterInv, CodeBound
<1>3. c.tried \in Nat /\ c.attempts \in Nat /\ died \in Nat
  BY DEF MeterInv, MeterTyped, CodeRecord
<1> HIDE DEF a, b
<1>4. CASE m = c /\ guess[v].id # c.id
  <2>1. c.tried <= c.attempts + b + died
    BY <1>1, <1>2, <1>3, <1>4
  <2> QED BY <1>2, <1>4, <2>1, Zenon DEF b
<1>5. CASE m.id = c.id /\ m.tried = c.tried /\ m.attempts = c.attempts + 1
  <2>1. c.tried <= (c.attempts + 1) + b + died
    BY <1>1, <1>2, <1>3
  <2> QED BY <1>2, <1>5, <2>1, Zenon DEF b
<1> QED BY <1>4, <1>5

LEMMA CountMetered == ASSUME MeterInv, NEW v \in Verifiers, CountAttempt(v) PROVE MeterInv'
<1> DEFINE r == [guess[v] EXCEPT !.pc = "fail"]
           up(c) == IF c.id = guess[v].id THEN [c EXCEPT !.attempts = @ + 1] ELSE c
<1>1. /\ guess[v].pc = "wrong" /\ codes' = {up(c) : c \in codes} /\ UNCHANGED <<fails, blocked, sending, issued, guessed, died>>
  BY Zenon DEF CountAttempt
<1>2. guess' = [guess EXCEPT ![v] = r]
  BY Zenon DEF CountAttempt
<1>3. MeterTyped
  BY DEF MeterInv
<1>4. GuessRecord(r) /\ r.pc = "fail"
  <2>1. guess[v] = Waiting \/ GuessRecord(guess[v])
    BY <1>3 DEF MeterTyped
  <2>2. GuessRecord(guess[v])
    BY <1>1, <2>1 DEF Waiting
  <2> QED BY <2>2 DEF GuessRecord, Stages
<1>5. \A c \in codes : /\ up(c) \in CodeRecord /\ up(c).id = c.id
                       /\ \/ up(c) = c /\ guess[v].id # c.id
                          \/ up(c).id = c.id /\ up(c).tried = c.tried /\ up(c).attempts = c.attempts + 1
  BY <1>3 DEF MeterTyped, CodeRecord
<1> HIDE DEF r, up
<1>6. /\ DOMAIN guess' = Verifiers /\ Differs(guess, guess', v) /\ guess'[v] = r
      /\ \A w \in Verifiers : guess'[w] = Waiting \/ GuessRecord(guess'[w])
  BY <1>2, <1>4, TypedMove, Zenon
<1>7. \A c \in codes' : \E d \in codes : c = up(d)
  BY <1>1
<1>8. MeterTyped'
  <2>1. \A c \in codes' : c \in CodeRecord /\ c.id <= issued'
    BY <1>1, <1>3, <1>5, <1>7, Zenon DEF MeterTyped
  <2> QED BY <1>1, <1>3, <1>6, <2>1, Zenon DEF MeterTyped
<1>9. GuessBound'
  <2>1. guess'[v].pc # "checked" /\ guess'[v].pc \in Counting
    BY <1>4, <1>6 DEF Counting
  <2>2. died' \in Nat /\ died <= died'
    BY <1>1, <1>3 DEF MeterTyped
  <2>3. fails'.n \in Nat /\ Low(fails.n) <= Low(fails'.n)
    BY <1>1, LowStays
  <2> QED BY <1>1, <1>6, <2>1, <2>2, <2>3, GuessMoves, Zenon
<1>10. CodeBound'
  <2>1. ASSUME NEW c \in codes'
        PROVE  /\ c.tried <= c.attempts + Cardinality(WrongOn(guess', c.id)) + died
               /\ c.tried <= MaxAttempts + Crowd - 1 + died
    <3>1. PICK d \in codes : c = up(d)
      BY <1>7, <2>1
    <3>2. (c = d /\ guess[v].id # d.id) \/ (c.id = d.id /\ c.tried = d.tried /\ c.attempts = d.attempts + 1)
      BY <1>5, <3>1, Zenon
    <3> QED BY <1>6, <3>2, CodeEntered, Zenon
  <2> QED BY <1>1, <2>1, Zenon DEF CodeBound
<1> QED BY <1>8, <1>9, <1>10 DEF MeterInv

LEMMA IncrFails ==
    ASSUME MeterInv, fails' = Incr(fails)
    PROVE  /\ fails'.n \in Nat /\ Low(fails.n) <= Low(fails'.n)
           /\ ~(fails.n + 1 >= FailThreshold) => Low(fails.n) + 1 <= Low(fails'.n)
<1>1. fails.n \in Nat /\ FailThreshold \in Nat \ {0} /\ MaxCount \in Nat /\ MaxCount >= FailThreshold
  BY LoginCodesAssumption DEF MeterInv, MeterTyped
<1>2. Incr(fails).n = IF fails.n = MaxCount THEN fails.n ELSE fails.n + 1
  BY DEF Incr
<1>3. \A n \in Nat : LET m == IF n = MaxCount THEN n ELSE n + 1
                     IN /\ m \in Nat /\ Low(n) <= Low(m)
                        /\ ~(n + 1 >= FailThreshold) => Low(n) + 1 <= Low(m)
  BY <1>1 DEF Low
<1> QED BY <1>1, <1>2, <1>3, Zenon

LEMMA FailureMetered == ASSUME MeterInv, NEW v \in Verifiers, RecordVerificationFailure(v) PROVE MeterInv'
<1> DEFINE r == [guess[v] EXCEPT !.pc = "block"]
           full == fails.n + 1 >= FailThreshold
<1>1. /\ guess[v].pc = "fail" /\ fails' = Incr(fails) /\ UNCHANGED <<blocked, sending, codes, issued, guessed, died>>
      /\ \/ full /\ guess' = [guess EXCEPT ![v] = r]
         \/ ~full /\ guess' = [guess EXCEPT ![v] = Waiting]
  BY DEF RecordVerificationFailure
<1>2. GuessRecord(r) /\ r.pc = "block"
  <2>1. guess[v] = Waiting \/ GuessRecord(guess[v])
    BY DEF MeterInv, MeterTyped
  <2>2. GuessRecord(guess[v])
    BY <1>1, <2>1 DEF Waiting
  <2> QED BY <2>2 DEF GuessRecord, Stages
<1> HIDE DEF r
<1>3. fails'.n \in Nat /\ Low(fails.n) <= Low(fails'.n) /\ (~full => Low(fails.n) + 1 <= Low(fails'.n))
  BY <1>1, IncrFails
<1> HIDE DEF full
<1>4. codes' \subseteq codes /\ guess[v].pc # "wrong"
  BY <1>1
<1>5. CASE guess' = [guess EXCEPT ![v] = r]
  <2>1. r.pc \in Counting /\ r.pc # "checked"
    BY <1>2 DEF Counting
  <2> QED BY <1>1, <1>2, <1>3, <1>4, <1>5, <2>1, PassOn, Zenon
<1>6. CASE ~full /\ guess' = [guess EXCEPT ![v] = Waiting]
  <2>1. Differs(guess, guess', v) /\ guess'[v] = Waiting
    BY <1>6, TypedMove, Zenon
  <2>2. guess'[v].pc # "checked"
    BY <2>1 DEF Waiting
  <2>3. guessed' \in Nat /\ died' \in Nat /\ died <= died' /\ blocked' \in BOOLEAN
    BY <1>1 DEF MeterInv, MeterTyped
  <2>4. GuessBound'
    BY <1>1, <1>3, <1>6, <2>1, <2>2, <2>3, GuessMoves, Zenon
  <2> QED BY <1>1, <1>3, <1>4, <1>6, <2>3, <2>4, MoveMetered, Zenon
<1> QED BY <1>1, <1>5, <1>6, Zenon

\* The verifiers that have looked and those that are counting are different ones.
LEMMA CrowdSplits ==
    ASSUME NEW g
    PROVE  LET a == Cardinality(In(g, Counting))
               k == Cardinality(In(g, {"checked"}))
           IN  a \in Nat /\ k \in Nat /\ a + k <= Crowd
<1> DEFINE S == In(g, Counting)
           T == In(g, {"checked"})
<1>1. S \in SUBSET Verifiers /\ T \in SUBSET Verifiers /\ S \cup T \in SUBSET Verifiers
  BY DEF In
<1>2. S \cap T = {}
  BY DEF In, Counting
<1> HIDE DEF S, T
<1>3. /\ IsFiniteSet(S) /\ Cardinality(S) \in Nat /\ IsFiniteSet(T) /\ Cardinality(T) \in Nat
      /\ Cardinality(S \cup T) <= Crowd
  BY <1>1, CrowdIsFinite, Zenon
<1>4. Cardinality(S \cup T) = Cardinality(S) + Cardinality(T) - Cardinality(S \cap T)
  BY <1>3, FS_Union, Zenon
<1>5. Cardinality(S \cap T) = 0
  BY <1>2, FS_EmptySet, Zenon
<1>6. Cardinality(S) + Cardinality(T) <= Crowd
  BY <1>3, <1>4, <1>5
<1> QED BY <1>3, <1>6, Zenon DEF S, T

LEMMA OutsideBoth ==
    ASSUME NEW g, NEW h, NEW v \in Verifiers, Differs(g, h, v), NEW P, g[v].pc \notin P, h[v].pc \notin P
    PROVE  Cardinality(In(h, P)) = Cardinality(In(g, P))
<1>1. In(h, P) = In(g, P)
  BY DEF In, Differs
<1> QED BY <1>1, Zenon

LEMMA BlockMetered == ASSUME MeterInv, NEW v \in Verifiers, SetBlock(v) PROVE MeterInv'
<1>1. /\ guess[v].pc = "block" /\ blocked' = TRUE /\ guess' = [guess EXCEPT ![v] = Waiting]
      /\ UNCHANGED <<fails, sending, codes, issued, guessed, died>>
  BY Zenon DEF SetBlock
<1>2. Differs(guess, guess', v) /\ guess'[v] = Waiting
  BY <1>1, TypedMove, Zenon
<1>3. guess[v].pc \notin {"checked"} /\ guess'[v].pc \notin {"checked"} /\ guess[v].pc # "wrong"
  BY <1>1, <1>2 DEF Waiting
<1>4. guessed \in Nat /\ died \in Nat /\ fails.n \in Nat /\ Crowd \in Nat /\ blocked \in BOOLEAN
  BY CrowdIsFinite DEF MeterInv, MeterTyped
<1>5. GuessBound'
  <2> DEFINE a == Cardinality(In(guess, Counting))
             k == Cardinality(In(guess, {"checked"}))
             l == Cardinality(In(guess', {"checked"}))
  <2>1. a \in Nat /\ k \in Nat /\ a + k <= Crowd
    BY CrowdSplits
  <2>2. l = k
    BY <1>2, <1>3, OutsideBoth, Zenon
  <2>3. /\ ~blocked => guessed <= Low(fails.n) + a + died
        /\ blocked => guessed + k <= FailThreshold - 1 + Crowd + died
    BY Zenon DEF MeterInv, GuessBound
  <2>4. Low(fails.n) \in Nat /\ Low(fails.n) <= FailThreshold - 1 /\ FailThreshold \in Nat
    BY <1>4, LowIs
  <2> HIDE DEF a, k, l
  <2>5. guessed + k <= FailThreshold - 1 + Crowd + died
    BY <1>4, <2>1, <2>3, <2>4
  <2>6. guessed' + l <= FailThreshold - 1 + Crowd + died'
    BY <1>1, <2>2, <2>5, Zenon
  <2> QED BY <1>1, <2>6, Zenon DEF GuessBound, l
<1>6. fails'.n \in Nat /\ guessed' \in Nat /\ died' \in Nat /\ blocked' \in BOOLEAN /\ codes' \subseteq codes
  BY <1>1, <1>4
<1> QED BY <1>1, <1>3, <1>5, <1>6, MoveMetered, Zenon

LEMMA DeathMetered == ASSUME MeterInv, NEW v \in Verifiers, VerifierDies(v) PROVE MeterInv'
<1>1. /\ died' = died + 1 /\ guess' = [guess EXCEPT ![v] = Waiting]
      /\ UNCHANGED <<blocked, sending, codes, issued, guessed>>
  BY Zenon DEF VerifierDies
<1>2. fails' = fails \/ (fails.n = 0 /\ fails' = [n |-> 1, ttl |-> FALSE])
  BY DEF VerifierDies
<1>3. guessed \in Nat /\ died \in Nat /\ fails.n \in Nat /\ blocked \in BOOLEAN
  BY DEF MeterInv, MeterTyped
<1>4. Differs(guess, guess', v) /\ guess'[v] = Waiting
  BY <1>1, TypedMove, Zenon
<1>5. guess'[v].pc # "checked"
  BY <1>4 DEF Waiting
<1>6. guessed' \in Nat /\ died' \in Nat /\ died <= died' /\ blocked' \in BOOLEAN /\ codes' \subseteq codes
  BY <1>1, <1>3
<1>7. fails'.n \in Nat /\ Low(fails.n) <= Low(fails'.n)
  <2>1. CASE fails' = fails
    BY <2>1, LowStays
  <2>2. CASE fails.n = 0 /\ fails' = [n |-> 1, ttl |-> FALSE]
    <3>1. fails'.n = 1
      BY <2>2
    <3>2. 1 \in Nat /\ Low(0) <= Low(1)
      BY LoginCodesAssumption DEF Low
    <3> QED BY <2>2, <3>1, <3>2, Zenon
  <2> QED BY <1>2, <2>1, <2>2
<1>8. GuessBound'
  BY <1>1, <1>4, <1>5, <1>6, <1>7, GuessMoves, Zenon
<1> QED BY <1>1, <1>6, <1>7, <1>8, MoveMetered, Zenon

LEMMA SignInMetered == ASSUME MeterInv, NEW v \in Verifiers, SignInByCode(v) PROVE MeterInv'
<1> DEFINE r == [guess[v] EXCEPT !.pc = "clear", !.sid = nextSid + 1]
<1>1. /\ guess[v].pc = "right" /\ codes' = {c \in codes : c.id # guess[v].id}
      /\ UNCHANGED <<fails, blocked, sending, issued, guessed, died>>
  BY Zenon DEF SignInByCode
<1>2. guess' = [guess EXCEPT ![v] = r]
  BY Zenon DEF SignInByCode
<1>3. GuessRecord(r) /\ r.pc = "clear"
  <2>1. guess[v] = Waiting \/ GuessRecord(guess[v])
    BY DEF MeterInv, MeterTyped
  <2>2. GuessRecord(guess[v])
    BY <1>1, <2>1 DEF Waiting
  <2> QED BY <2>2 DEF GuessRecord, Stages
<1> HIDE DEF r
<1>4. guess[v].pc # "wrong" /\ r.pc # "checked" /\ guess[v].pc \notin Counting /\ codes' \subseteq codes
  BY <1>1, <1>3 DEF Counting
<1>5. fails'.n \in Nat /\ Low(fails.n) <= Low(fails'.n)
  BY <1>1, LowStays
<1> QED BY <1>1, <1>2, <1>3, <1>4, <1>5, PassOn, Zenon

LEMMA ClearMetered == ASSUME MeterInv, NEW v \in Verifiers, ClearOnSuccess(v) PROVE MeterInv'
<1>1. /\ guess[v].pc = "clear" /\ fails' = Zero /\ blocked' = FALSE /\ guessed' = 0
      /\ guess' = [guess EXCEPT ![v] = Waiting] /\ UNCHANGED <<sending, codes, issued, died>>
  BY Zenon DEF ClearOnSuccess
<1>2. fails'.n \in Nat /\ guessed' \in Nat /\ blocked' \in BOOLEAN /\ codes' \subseteq codes /\ guess[v].pc # "wrong"
  BY <1>1 DEF Zero
<1>3. died' \in Nat
  BY <1>1 DEF MeterInv, MeterTyped
<1>4. GuessBound'
  BY <1>1, <1>2, Cleared, Zenon
<1> QED BY <1>1, <1>2, <1>3, <1>4, MoveMetered, Zenon

\* The bounds imply what is promised.
LEMMA MeterBounds == MeterInv => GuessesAreMetered
<1> SUFFICES ASSUME MeterInv PROVE GuessesAreMetered
  OBVIOUS
<1>1. guessed \in Nat /\ died \in Nat /\ fails.n \in Nat /\ Crowd \in Nat /\ MaxAttempts \in Nat
  BY CrowdIsFinite, LoginCodesAssumption DEF MeterInv, MeterTyped
<1>2. guessed <= FailThreshold + (Crowd - 1 + died)
  <2> DEFINE a == Cardinality(In(guess, Counting))
             k == Cardinality(In(guess, {"checked"}))
  <2>1. a \in Nat /\ k \in Nat /\ a + k <= Crowd
    BY CrowdSplits
  <2>2. /\ ~blocked => guessed <= Low(fails.n) + a + died
        /\ blocked => guessed + k <= FailThreshold - 1 + Crowd + died
    BY Zenon DEF MeterInv, GuessBound
  <2>3. Low(fails.n) \in Nat /\ Low(fails.n) <= FailThreshold - 1 /\ FailThreshold \in Nat
    BY <1>1, LowIs
  <2> HIDE DEF a, k
  <2> QED BY <1>1, <2>1, <2>2, <2>3
<1>3. ASSUME NEW c \in codes PROVE c.tried <= MaxAttempts + (Crowd - 1 + died)
  <2>1. c.tried <= MaxAttempts + Crowd - 1 + died
    BY Zenon DEF MeterInv, CodeBound
  <2>2. c.tried \in Nat
    BY DEF MeterInv, MeterTyped, CodeRecord
  <2> QED BY <1>1, <2>1, <2>2
<1> QED BY <1>2, <1>3, Zenon DEF GuessesAreMetered, Crowd

LEMMA MeterInitially == CodesInit => MeterInv
<1> SUFFICES ASSUME CodesInit PROVE MeterInv
  OBVIOUS
<1>1. /\ guess = [v \in Verifiers |-> Waiting] /\ fails = Zero /\ guessed = 0 /\ died = 0 /\ blocked = FALSE
      /\ issued = 0 /\ sending = 0 /\ codes = {}
  BY Zenon DEF CodesInit
<1>2. MeterTyped
  <2>1. DOMAIN guess = Verifiers /\ \A v \in Verifiers : guess[v] = Waiting
    BY <1>1
  <2>2. fails.n \in Nat
    BY <1>1 DEF Zero
  <2>3. issued + sending <= MaxCodes
    BY <1>1, LoginCodesAssumption
  <2> QED BY <1>1, <2>1, <2>2, <2>3 DEF MeterTyped
<1>3. GuessBound
  <2> DEFINE a == Cardinality(In(guess, Counting))
             k == Cardinality(In(guess, {"checked"}))
  <2>1. a \in Nat /\ k \in Nat
    BY CrowdSplits
  <2>2. Low(fails.n) \in Nat
    BY <1>2, LowIs DEF MeterTyped
  <2> HIDE DEF a, k
  <2>3. guessed <= Low(fails.n) + a + died
    BY <1>1, <2>1, <2>2
  <2> QED BY <1>1, <2>3 DEF GuessBound, a
<1>4. CodeBound
  BY <1>1 DEF CodeBound
<1> QED BY <1>2, <1>3, <1>4 DEF MeterInv

LEMMA MeterStep == MeterInv /\ [AccountNext]_<<sessionVars, codeVars>> => MeterInv'
<1> SUFFICES ASSUME MeterInv, [AccountNext]_<<sessionVars, codeVars>> PROVE MeterInv'
  OBVIOUS
<1>1. CASE UNCHANGED codeVars
  <2>1. UNCHANGED <<guess, fails, guessed, died, blocked, issued, sending, codes>>
    BY <1>1 DEF codeVars
  <2> QED BY <2>1, Zenon DEF MeterInv, MeterTyped, GuessBound, CodeBound
<1>2. CASE CodesNext
  <2>1. CASE RegisterCodeRequest \/ ChallengeRequired \/ RequestDies
    BY <2>1, RequestMetered
  <2>2. CASE CreateCode \/ LapseNext
    BY <2>2, CreateMetered, LapseMetered
  <2>3. ASSUME NEW v \in Verifiers,
               \/ AssertNotBlocked(v) \/ VerifyCode(v) \/ CountAttempt(v) \/ RecordVerificationFailure(v)
               \/ SetBlock(v) \/ VerifierDies(v) \/ SignInByCode(v) \/ ClearOnSuccess(v)
        PROVE  MeterInv'
    BY <2>3, LookMetered, VerifyMetered, CountMetered, FailureMetered, BlockMetered, DeathMetered,
       SignInMetered, ClearMetered, Zenon
  <2> QED BY <1>2, <2>1, <2>2, <2>3, Zenon DEF CodesNext
<1> QED BY <1>1, <1>2, Zenon DEF AccountNext

(***************************************************************************)
(* verifyCode: however many requests are served at once and however their  *)
(* checks and counts interleave, the guesses compared with one code, and   *)
(* with all codes before a block, stay within their limit plus one for     *)
(* every other request being served and one for every process that died.   *)
(***************************************************************************)
THEOREM CodesCannotBeWornDown == AccountSpec => []GuessesAreMetered
<1>1. SessionsInit /\ CodesInit => MeterInv
  BY MeterInitially
<1>2. AccountSpec => []MeterInv
  BY <1>1, MeterStep, PTL DEF AccountSpec
<1> QED BY <1>2, MeterBounds, PTL
-----------------------------------------------------------------------------
(***************************************************************************)
(* Sessions.  First what opening and closing a session do to the list of   *)
(* open ones, in which no sid occurs twice.                                *)
(***************************************************************************)
Distinct(q) == \A i, j \in 1..Len(q) : q[i] = q[j] => i = j

LEMMA RangeIs == ASSUME NEW q \in Seq(Nat) PROVE \A x : x \in Range(q) <=> \E i \in 1..Len(q) : q[i] = x
<1>1. DOMAIN q = 1..Len(q)
  OBVIOUS
<1> QED BY <1>1, Zenon DEF Range

LEMMA Pulled ==
    ASSUME NEW q \in Seq(Nat), Distinct(q), NEW e
    PROVE  LET p == RemoveFirst(q, e)
           IN  p \in Seq(Nat) /\ Distinct(p) /\ \A x : x \in Range(p) <=> x \in Range(q) /\ x # e
<1>1. CASE ~\E i \in 1..Len(q) : q[i] = e
  <2>1. RemoveFirst(q, e) = q
    BY <1>1, Zenon DEF RemoveFirst
  <2>2. e \notin Range(q)
    BY <1>1, RangeIs, Zenon
  <2> QED BY <2>1, <2>2, Zenon
<1>2. ASSUME NEW i \in 1..Len(q), q[i] = e
      PROVE  LET p == RemoveFirst(q, e)
             IN  p \in Seq(Nat) /\ Distinct(p) /\ \A x : x \in Range(p) <=> x \in Range(q) /\ x # e
  <2> DEFINE I == {j \in 1..Len(q) : q[j] = e}
             a == SubSeq(q, 1, i - 1)
             b == SubSeq(q, i + 1, Len(q))
             p == a \o b
             n == Len(q)
  <2>1. I = {i}
    BY <1>2 DEF Distinct
  <2>2. Min(I) = i
    <3>1. \A m \in {i} : i <= m
      OBVIOUS
    <3> QED BY <2>1, <3>1 DEF Min
  <2>3. RemoveFirst(q, e) = p
    <3>1. SelectInSeq(q, LAMBDA v : v = e) = i
      BY <2>1, <2>2 DEF SelectInSeq
    <3>2. RemoveFirst(q, e) = RemoveAt(q, SelectInSeq(q, LAMBDA v : v = e))
      BY <1>2, Zenon DEF RemoveFirst
    <3>3. RemoveFirst(q, e) = RemoveAt(q, i)
      BY <3>1, <3>2, Zenon
    <3> QED BY <3>3, Zenon DEF RemoveAt
  <2>4. n \in Nat /\ i \in 1..n /\ \A j \in 1..n : q[j] \in Nat
    OBVIOUS
  <2>d. \A j, k \in 1..n : q[j] = q[k] => j = k
    BY DEF Distinct
  <2>r. \A x : x \in Range(q) <=> \E j \in 1..n : q[j] = x
    BY RangeIs, Zenon
  <2>5. a \in Seq(Nat) /\ Len(a) = i - 1 /\ \A j \in 1..(i - 1) : a[j] = q[j]
    BY <2>4, SubSeqProperties
  <2>6. b \in Seq(Nat) /\ Len(b) = n - i /\ \A j \in 1..(n - i) : b[j] = q[i + j]
    <3>1. b \in Seq(Nat) /\ Len(b) = (IF i + 1 <= n THEN n - (i + 1) + 1 ELSE 0)
          /\ \A j \in 1..(n - (i + 1) + 1) : b[j] = q[(i + 1) + j - 1]
      BY <2>4, SubSeqProperties
    <3> HIDE DEF b
    <3> QED BY <2>4, <3>1
  <2> HIDE DEF a, b, n
  <2>7. /\ p \in Seq(Nat) /\ Len(p) = Len(a) + Len(b)
        /\ \A j \in 1..(Len(a) + Len(b)) : p[j] = IF j <= Len(a) THEN a[j] ELSE b[j - Len(a)]
    BY <2>5, <2>6, ConcatProperties
  <2> HIDE DEF p
  <2>8. Len(p) = n - 1 /\ \A j \in 1..(n - 1) : (j < i => p[j] = q[j]) /\ (j >= i => p[j] = q[j + 1])
    <3>1. Len(p) = n - 1
      BY <2>4, <2>5, <2>6, <2>7
    <3>2. ASSUME NEW j \in 1..(n - 1), j < i PROVE p[j] = q[j]
      BY <2>4, <2>5, <2>6, <2>7, <3>2
    <3>3. ASSUME NEW j \in 1..(n - 1), j >= i PROVE p[j] = q[j + 1]
      <4>1. p[j] = b[j - (i - 1)]
        BY <2>4, <2>5, <2>6, <2>7, <3>3
      <4>2. j - (i - 1) \in 1..(n - i) /\ i + (j - (i - 1)) = j + 1
        BY <2>4, <3>3
      <4> QED BY <2>6, <4>1, <4>2
    <3> QED BY <3>1, <3>2, <3>3
  <2> DEFINE up(j) == IF j < i THEN j ELSE j + 1
  <2>u. /\ \A j \in 1..(n - 1) : up(j) \in 1..n /\ up(j) # i /\ p[j] = q[up(j)]
        /\ \A j, k \in 1..(n - 1) : up(j) = up(k) => j = k
        /\ \A k \in 1..n : k # i => \E j \in 1..(n - 1) : up(j) = k
    <3>1. \A j \in 1..(n - 1) : up(j) \in 1..n /\ up(j) # i
      BY <2>4
    <3>2. \A j \in 1..(n - 1) : p[j] = q[up(j)]
      BY <2>4, <2>8
    <3>3. \A j, k \in 1..(n - 1) : up(j) = up(k) => j = k
      BY <2>4
    <3>4. ASSUME NEW k \in 1..n, k # i PROVE \E j \in 1..(n - 1) : up(j) = k
      <4>1. CASE k < i
        <5>1. k \in 1..(n - 1) /\ up(k) = k
          BY <2>4, <4>1
        <5> QED BY <5>1, Zenon
      <4>2. CASE k > i
        <5>1. k - 1 \in 1..(n - 1) /\ up(k - 1) = k
          BY <2>4, <4>2
        <5> QED BY <5>1, Zenon
      <4> QED BY <2>4, <3>4, <4>1, <4>2
    <3> QED BY <3>1, <3>2, <3>3, <3>4, Zenon
  <2> HIDE DEF up
  <2>s. \A x : x \in Range(p) <=> \E j \in 1..(n - 1) : p[j] = x
    <3>1. \A x : x \in Range(p) <=> \E j \in 1..Len(p) : p[j] = x
      BY <2>7, RangeIs, Zenon
    <3> QED BY <2>8, <3>1
  <2>9. Distinct(p)
    <3>1. \A j, k \in 1..(n - 1) : p[j] = p[k] => j = k
      BY <2>d, <2>u, Zenon
    <3> QED BY <2>8, <3>1 DEF Distinct
  <2>10. ASSUME NEW x, x \in Range(p) PROVE x \in Range(q) /\ x # e
    <3>1. PICK j \in 1..(n - 1) : p[j] = x
      BY <2>10, <2>s, Zenon
    <3>2. up(j) \in 1..n /\ up(j) # i /\ q[up(j)] = x
      BY <2>u, <3>1, Zenon
    <3>3. x # e
      BY <1>2, <2>4, <2>d, <3>2, Zenon
    <3> QED BY <2>r, <3>2, <3>3, Zenon
  <2>11. ASSUME NEW x, x \in Range(q), x # e PROVE x \in Range(p)
    <3>1. PICK k \in 1..n : q[k] = x
      BY <2>11, <2>r, Zenon
    <3>2. k # i
      BY <1>2, <2>11, <3>1
    <3>3. PICK j \in 1..(n - 1) : up(j) = k
      BY <2>u, <3>1, <3>2, Zenon
    <3>4. p[j] = x
      BY <2>u, <3>1, <3>3, Zenon
    <3> QED BY <2>s, <3>3, <3>4, Zenon
  <2> QED BY <2>3, <2>7, <2>9, <2>10, <2>11, Zenon
<1> QED BY <1>1, <1>2, Zenon

LEMMA Opened ==
    ASSUME NEW q \in Seq(Nat), Distinct(q), NEW s \in Nat, s \notin Range(q)
    PROVE  LET merged == Append(q, s)
               evicted == SubSeq(merged, 1, Len(merged) - Cap)
               kept == SubSeq(merged, Len(evicted) + 1, Len(merged))
           IN  /\ kept \in Seq(Nat) /\ Distinct(kept) /\ s \in Range(kept)
               /\ \A x : x \in Range(kept) => x \in Range(q) \/ x = s
               /\ \A x : x \in Range(q) => x \in Range(kept) \/ x \in Range(evicted)
               /\ \A x : x \in Range(evicted) => x \in Range(q) /\ x \notin Range(kept)
<1> DEFINE merged == Append(q, s)
           n == Len(q) + 1
           evicted == SubSeq(merged, 1, Len(merged) - Cap)
           k == Len(evicted)
           kept == SubSeq(merged, k + 1, Len(merged))
<1>1. Cap \in Nat \ {0}
  BY SessionsAssumption
<1>2. /\ merged \in Seq(Nat) /\ Len(merged) = n /\ n \in Nat /\ merged[n] = s
      /\ \A i \in 1..(n - 1) : merged[i] = q[i]
  BY AppendProperties
<1>3. Distinct(merged)
  <2>1. \A i \in 1..(n - 1) : q[i] # s
    BY RangeIs
  <2> HIDE DEF merged
  <2> QED BY <1>2, <2>1 DEF Distinct
<1> HIDE DEF merged
<1>4. \A i \in 1..n : merged[i] \in Nat
  BY <1>2
<1>5. /\ evicted \in Seq(Nat) /\ k \in Nat /\ k <= n - 1
      /\ \A i \in 1..k : evicted[i] = merged[i]
  <2>1. CASE n - Cap >= 1
    <3>1. evicted \in Seq(Nat) /\ Len(evicted) = n - Cap /\ \A i \in 1..(n - Cap) : evicted[i] = merged[i]
      <4>1. \A i \in 1..(n - Cap) : merged[i] \in Nat
        BY <1>1, <1>2, <1>4
      <4>2. /\ SubSeq(merged, 1, n - Cap) \in Seq(Nat)
            /\ Len(SubSeq(merged, 1, n - Cap)) = IF 1 <= n - Cap THEN n - Cap - 1 + 1 ELSE 0
            /\ \A i \in 1..(n - Cap - 1 + 1) : SubSeq(merged, 1, n - Cap)[i] = merged[1 + i - 1]
        BY <1>1, <1>2, <2>1, <4>1, SubSeqProperties
      <4> QED BY <1>1, <1>2, <2>1, <4>2
    <3> HIDE DEF evicted
    <3> QED BY <1>1, <1>2, <2>1, <3>1
  <2>2. CASE ~(n - Cap >= 1)
    <3>1. evicted = <<>>
      BY <1>1, <1>2, <2>2, SubSeqEmpty
    <3> HIDE DEF evicted
    <3>2. evicted \in Seq(Nat) /\ k = 0
      BY <3>1
    <3> HIDE DEF k
    <3> QED BY <1>2, <3>2
  <2> QED BY <2>1, <2>2
<1> HIDE DEF evicted, k
<1>6. kept \in Seq(Nat) /\ Len(kept) = n - k /\ \A i \in 1..(n - k) : kept[i] = merged[k + i]
  <2>1. \A i \in (k + 1)..n : merged[i] \in Nat
    BY <1>2, <1>4, <1>5
  <2>2. /\ kept \in Seq(Nat) /\ Len(kept) = (IF k + 1 <= n THEN n - (k + 1) + 1 ELSE 0)
        /\ \A i \in 1..(n - (k + 1) + 1) : kept[i] = merged[(k + 1) + i - 1]
    BY <1>2, <1>5, <2>1, SubSeqProperties
  <2> HIDE DEF kept
  <2> QED BY <1>2, <1>5, <2>2
<1> HIDE DEF kept, n
<1>7. Distinct(kept)
  BY <1>2, <1>3, <1>5, <1>6 DEF Distinct
<1>8. /\ \A x : x \in Range(kept) <=> \E i \in 1..(n - k) : kept[i] = x
      /\ \A x : x \in Range(evicted) <=> \E i \in 1..k : evicted[i] = x
      /\ \A x : x \in Range(q) <=> \E i \in 1..(n - 1) : q[i] = x
  <2>1. Len(evicted) = k /\ Len(q) = n - 1
    BY DEF k, n
  <2>2. \A x : x \in Range(kept) <=> \E i \in 1..Len(kept) : kept[i] = x
    BY <1>6, RangeIs, Zenon
  <2>3. \A x : x \in Range(evicted) <=> \E i \in 1..Len(evicted) : evicted[i] = x
    BY <1>5, RangeIs, Zenon
  <2>4. \A x : x \in Range(q) <=> \E i \in 1..Len(q) : q[i] = x
    BY RangeIs, Zenon
  <2> QED BY <1>6, <2>1, <2>2, <2>3, <2>4, Zenon
<1>9. s \in Range(kept)
  <2>1. n - k \in 1..(n - k) /\ k + (n - k) = n
    BY <1>2, <1>5
  <2> QED BY <1>2, <1>6, <1>8, <2>1
<1>10. ASSUME NEW x, x \in Range(kept) PROVE x \in Range(q) \/ x = s
  <2>1. PICK i \in 1..(n - k) : merged[k + i] = x
    BY <1>6, <1>8, <1>10
  <2>2. k + i \in 1..n
    BY <1>2, <1>5, <2>1
  <2>3. k + i = n \/ k + i \in 1..(n - 1)
    BY <1>2, <1>5, <2>1
  <2> QED BY <1>2, <1>8, <2>1, <2>3
<1>11. ASSUME NEW x, x \in Range(q) PROVE x \in Range(kept) \/ x \in Range(evicted)
  <2>1. PICK i \in 1..(n - 1) : merged[i] = x
    BY <1>2, <1>8, <1>11
  <2>2. CASE i <= k
    BY <1>2, <1>5, <1>8, <2>1, <2>2
  <2>3. CASE i > k
    <3>1. i - k \in 1..(n - k) /\ k + (i - k) = i
      BY <1>2, <1>5, <2>1, <2>3
    <3> QED BY <1>6, <1>8, <2>1, <3>1
  <2> QED BY <1>2, <1>5, <2>1, <2>2, <2>3
<1>12. ASSUME NEW x, x \in Range(evicted) PROVE x \in Range(q) /\ x \notin Range(kept)
  <2>1. PICK i \in 1..k : merged[i] = x
    BY <1>5, <1>8, <1>12
  <2>2. x \in Range(q)
    <3>1. i \in 1..(n - 1)
      BY <1>2, <1>5, <2>1
    <3> QED BY <1>2, <1>8, <2>1, <3>1
  <2>3. ASSUME NEW j \in 1..(n - k), merged[k + j] = x PROVE FALSE
    <3>1. k + j \in 1..n /\ i \in 1..n /\ k + j # i
      BY <1>2, <1>5, <2>1
    <3> QED BY <1>2, <1>3, <2>1, <2>3, <3>1 DEF Distinct
  <2> QED BY <1>6, <1>8, <2>2, <2>3
<1> QED BY <1>6, <1>7, <1>9, <1>10, <1>11, <1>12, Zenon DEF merged, evicted, kept, k

(***************************************************************************)
(* What the log says and what the account holds agree, whichever call      *)
(* commits next: a generation that ended everything has its row, an open   *)
(* sid none that ends it, a call that will sign tokens holds a session     *)
(* that was signed in and is open or has a row that ends it, and a sign-in *)
(* that has yet to commit holds a sid nothing has mentioned.               *)
(***************************************************************************)
EventRow == [type: {"SIGNED_IN", "SIGNED_OUT", "REVOKED"}, gen: Nat, sid: Nat]
TokenRow == [gen: Nat, sid: Nat]
CallRow == [kind: {"login", "issue", "logout", "reset", "superseded"}, gen: Nat, sid: Nat]

Ended(r) == r.type # "SIGNED_IN"
Named(s) == \E r \in audit : Ended(r) /\ r.sid = s

LogTyped ==
    /\ gen \in Nat /\ nextSid \in Nat /\ capped \in BOOLEAN
    /\ open \in Seq(Nat) /\ Distinct(open) /\ audit \subseteq EventRow

LogInv ==
    /\ LogTyped
    /\ \A r \in audit : r.sid <= nextSid
    /\ \A r \in audit : Ended(r) /\ r.sid = NoSid => r.gen <= gen
    /\ gen > 0 => \E r \in audit : Ended(r) /\ r.sid = NoSid /\ r.gen = gen
    /\ \A s \in Range(open) : s # NoSid /\ s <= nextSid /\ ~Named(s)
    /\ ~capped => open = <<>> /\ \A r \in audit : r.sid = NoSid

Vouched(g, s) ==
    /\ g <= gen /\ SessionRow("SIGNED_IN", g, s) \in audit
    /\ capped <=> s # NoSid
    /\ capped /\ g = gen => s \in Range(open) \/ Named(s)

Unused(s) == s # NoSid /\ s <= nextSid /\ s \notin Range(open) /\ \A r \in audit : r.sid # s

CallsInv ==
    /\ flight \subseteq CallRow
    /\ \A c \in flight : c.kind = "login" => c.gen <= gen /\ Unused(c.sid)
    /\ \A c, d \in flight : c.kind = "login" /\ d.kind = "login" /\ c.sid = d.sid => c = d
    /\ \A c \in flight : c.kind \in {"issue", "logout"} => Vouched(c.gen, c.sid)

TokensInv == tokens \subseteq TokenRow /\ \A t \in tokens : Vouched(t.gen, t.sid)

SignInGuess(x) ==
    /\ x.pc = "right" => x.gen \in Nat /\ x.gen <= gen
    /\ x.pc = "clear" => x.gen \in Nat /\ x.sid \in Nat /\ Vouched(x.gen, x.sid)

GuessesInv == \A v \in Verifiers : SignInGuess(guess[v])

SessionInv == LogInv /\ CallsInv /\ TokensInv /\ GuessesInv

\* A step keeps what it vouches for and, but for the sids in X, what is unused.
Keeps(X) ==
    /\ gen' \in Nat /\ gen <= gen'
    /\ \A g, s \in Nat : Vouched(g, s) => Vouched(g, s)'
    /\ \A s \in Nat : s \notin X /\ Unused(s) => Unused(s)'

\* The invariant is what the property needs.
LEMMA LogAnswers == SessionInv => AuditTellsWhoIsIn
<1> SUFFICES ASSUME SessionInv, NEW t \in tokens PROVE Current(t) <=> AuditLive(t)
  BY Zenon DEF AuditTellsWhoIsIn
<1>1. LogInv /\ Vouched(t.gen, t.sid) /\ t.gen \in Nat /\ t.sid \in Nat
  BY DEF SessionInv, TokensInv, TokenRow
<1>2. gen \in Nat /\ capped \in BOOLEAN /\ audit \subseteq EventRow
  BY <1>1 DEF LogInv, LogTyped
<1>3. ASSUME Current(t) PROVE AuditLive(t)
  <2>1. t.gen = gen /\ (capped => t.sid \in Range(open))
    BY <1>3 DEF Current
  <2>2. SessionRow("SIGNED_IN", t.gen, t.sid) \in audit
    BY <1>1 DEF Vouched
  <2>3. ASSUME NEW r \in audit, r.type # "SIGNED_IN", IF r.sid = NoSid THEN r.gen > t.gen ELSE r.sid = t.sid
        PROVE  FALSE
    <3>1. CASE r.sid = NoSid
      <4>1. r.gen <= gen /\ r.gen \in Nat
        BY <1>1, <1>2, <2>3, <3>1 DEF LogInv, Ended, EventRow
      <4> QED BY <1>2, <2>1, <2>3, <3>1, <4>1
    <3>2. CASE r.sid # NoSid
      <4>1. r.sid = t.sid /\ Ended(r)
        BY <2>3, <3>2 DEF Ended
      <4>2. Named(t.sid)
        BY <4>1 DEF Named
      <4>3. capped
        BY <1>1, <3>2, Zenon DEF LogInv
      <4> QED BY <1>1, <2>1, <4>2, <4>3, Zenon DEF LogInv
    <3> QED BY <3>1, <3>2
  <2> QED BY <2>2, <2>3, Zenon DEF AuditLive
<1>4. ASSUME AuditLive(t) PROVE Current(t)
  <2>1. ASSUME t.gen # gen PROVE FALSE
    <3>1. t.gen < gen /\ gen > 0
      BY <1>1, <1>2, <2>1 DEF Vouched
    <3>2. PICK r \in audit : Ended(r) /\ r.sid = NoSid /\ r.gen = gen
      BY <1>1, <3>1, Zenon DEF LogInv
    <3>3. r.gen > t.gen /\ r.type # "SIGNED_IN"
      BY <1>1, <1>2, <3>1, <3>2 DEF Ended
    <3> QED BY <1>4, <3>2, <3>3, Zenon DEF AuditLive
  <2>2. ASSUME capped PROVE t.sid \in Range(open)
    <3>1. t.sid # NoSid /\ (t.sid \in Range(open) \/ Named(t.sid))
      BY <1>1, <2>1, <2>2, Zenon DEF Vouched
    <3>2. ASSUME Named(t.sid) PROVE FALSE
      <4>1. PICK r \in audit : Ended(r) /\ r.sid = t.sid
        BY <3>2 DEF Named
      <4>2. r.type # "SIGNED_IN" /\ r.sid # NoSid
        BY <3>1, <4>1 DEF Ended
      <4> QED BY <1>4, <4>1, <4>2, Zenon DEF AuditLive
    <3> QED BY <3>1, <3>2
  <2> QED BY <2>1, <2>2 DEF Current
<1> QED BY <1>3, <1>4

LEMMA LeTrans == \A x, y, z \in Nat : x <= y /\ y <= z => x <= z
OBVIOUS

\* The log and the list stay; sids may be given out.
LEMMA SameLog ==
    ASSUME LogInv, UNCHANGED <<capped, gen, open, audit>>, nextSid' \in Nat, nextSid <= nextSid'
    PROVE  LogInv' /\ Keeps({})
<1>1. gen \in Nat /\ nextSid \in Nat /\ \A r \in audit : r.sid \in Nat /\ r.sid <= nextSid
  BY DEF LogInv, LogTyped, EventRow
<1>2. \A s \in Range(open) : s \in Nat /\ s <= nextSid
  <2>1. open \in Seq(Nat)
    BY DEF LogInv, LogTyped
  <2>2. Range(open) \subseteq Nat
    BY <2>1 DEF Range
  <2> QED BY <2>2, Zenon DEF LogInv
<1>3. \A r \in audit : r.sid <= nextSid'
  BY <1>1, LeTrans, Zenon
<1>4. \A s \in Range(open) : s <= nextSid'
  BY <1>1, <1>2, LeTrans, Zenon
<1>5. gen <= gen
  BY <1>1
<1>6. \A s \in Nat : s <= nextSid => s <= nextSid'
  BY <1>1, LeTrans, Zenon
<1>7. LogInv'
  BY <1>3, <1>4, Zenon DEF LogInv, LogTyped, Named
<1> QED BY <1>1, <1>5, <1>6, <1>7, Zenon DEF Keeps, Vouched, Unused, Named

\* Everything ends: the generation moves on, the list is emptied, and a row says so.
LEMMA BumpLog ==
    ASSUME LogInv, gen' = gen + 1, open' = <<>>, NEW rows, audit' = audit \cup rows,
           \A r \in rows : r \in EventRow /\ r.gen = gen + 1 /\ r.sid = NoSid, \E r \in rows : Ended(r),
           UNCHANGED <<capped, nextSid>>
    PROVE  LogInv' /\ Keeps({})
<1>1. gen \in Nat /\ nextSid \in Nat /\ capped \in BOOLEAN /\ audit \subseteq EventRow
  BY DEF LogInv, LogTyped
<1>2. open' \in Seq(Nat) /\ Distinct(open') /\ Range(open') = {}
  <2>1. <<>> \in Seq(Nat) /\ Distinct(<<>>) /\ Range(<<>>) = {}
    BY DEF Distinct, Range
  <2> QED BY <2>1, Zenon
<1>3. gen + 1 \in Nat /\ gen <= gen + 1 /\ gen + 1 > 0
  BY <1>1
<1>4. NoSid <= nextSid
  BY <1>1 DEF NoSid
<1>5. \A r \in audit' : r \in EventRow /\ r.sid <= nextSid
  BY <1>1, <1>4, Zenon DEF LogInv
<1>6. ASSUME NEW r \in audit', Ended(r), r.sid = NoSid PROVE r.gen <= gen + 1
  <2>1. CASE r \in audit
    <3>1. r.gen <= gen /\ r.gen \in Nat
      BY <1>1, <1>6, <2>1 DEF LogInv, EventRow
    <3> QED BY <1>1, <3>1
  <2>2. CASE r \in rows
    <3>1. r.gen = gen + 1
      BY <2>2, Zenon
    <3> QED BY <1>1, <3>1
  <2> QED BY <1>6, <2>1, <2>2
<1>7. \E r \in audit' : Ended(r) /\ r.sid = NoSid /\ r.gen = gen + 1
  BY Zenon
<1>8. ~capped => \A r \in audit' : r.sid = NoSid
  BY Zenon DEF LogInv
<1>9. LogInv'
  <2>1. LogTyped'
    BY <1>1, <1>2, <1>3, <1>5, Zenon DEF LogTyped
  <2>2. \A s \in Range(open') : s # NoSid /\ s <= nextSid' /\ ~Named(s)'
    BY <1>2, Zenon
  <2> QED BY <1>5, <1>6, <1>7, <1>8, <2>1, <2>2, Zenon DEF LogInv
<1>10. ASSUME NEW g \in Nat, NEW s \in Nat, Vouched(g, s) PROVE Vouched(g, s)'
  <2>1. g <= gen /\ SessionRow("SIGNED_IN", g, s) \in audit /\ (capped <=> s # NoSid)
    BY <1>10 DEF Vouched
  <2>2. g <= gen + 1 /\ g # gen + 1
    BY <1>1, <2>1
  <2>3. SessionRow("SIGNED_IN", g, s) \in audit'
    BY <2>1, Zenon
  <2> QED BY <2>1, <2>2, <2>3, Zenon DEF Vouched
<1>11. ASSUME NEW s \in Nat, Unused(s) PROVE Unused(s)'
  <2>1. s # NoSid /\ s <= nextSid /\ \A r \in audit : r.sid # s
    BY <1>11 DEF Unused
  <2>2. \A r \in audit' : r.sid # s
    BY <2>1, Zenon
  <2> QED BY <1>2, <2>1, <2>2, Zenon DEF Unused
<1>12. gen' \in Nat /\ gen <= gen'
  BY <1>3, Zenon
<1> QED BY <1>9, <1>10, <1>11, <1>12, Zenon DEF Keeps

\* A session is opened: the oldest beyond the cap are evicted by name.
LEMMA OpenLog ==
    ASSUME LogInv, capped, NEW s \in Nat, NEW g \in Nat, g <= gen, s # NoSid, s \notin Range(open),
           \A r \in audit : r.sid # s, nextSid' \in Nat, nextSid <= nextSid', s <= nextSid',
           OpenSession(s, g), UNCHANGED <<capped, gen>>
    PROVE  LogInv' /\ Keeps({s}) /\ Vouched(g, s)'
<1> DEFINE merged == Append(open, s)
           evicted == SubSeq(merged, 1, Len(merged) - Cap)
           kept == SubSeq(merged, Len(evicted) + 1, Len(merged))
           gone == Range(evicted)
           signed == SessionRow("SIGNED_IN", g, s)
           rows == {SessionRow("REVOKED", g, e) : e \in gone}
<1>1. /\ gen \in Nat /\ nextSid \in Nat /\ audit \subseteq EventRow /\ open \in Seq(Nat) /\ Distinct(open)
      /\ \A r \in audit : r.sid \in Nat /\ r.sid <= nextSid
  BY DEF LogInv, LogTyped, EventRow
<1>2. open' = kept /\ audit' = audit \cup rows \cup {signed}
  BY Zenon DEF OpenSession
<1>3. /\ kept \in Seq(Nat) /\ Distinct(kept) /\ s \in Range(kept)
      /\ \A x : x \in Range(kept) => x \in Range(open) \/ x = s
      /\ \A x : x \in Range(open) => x \in Range(kept) \/ x \in Range(evicted)
      /\ \A x : x \in Range(evicted) => x \in Range(open) /\ x \notin Range(kept)
  BY <1>1, Opened
<1> HIDE DEF merged, evicted, kept
<1>4. /\ open' \in Seq(Nat) /\ Distinct(open') /\ s \in Range(open')
      /\ \A x : x \in Range(open') => x \in Range(open) \/ x = s
      /\ \A x : x \in Range(open) => x \in Range(open') \/ x \in gone
      /\ \A x : x \in gone => x \in Range(open) /\ x \notin Range(open')
  BY <1>2, <1>3, Zenon
<1> HIDE DEF gone
<1>5. Range(open) \subseteq Nat
  BY <1>1 DEF Range
<1>6. \A r \in rows : /\ r \in EventRow /\ Ended(r) /\ r.sid \in gone
                      /\ r.sid # NoSid /\ r.sid # s /\ r.sid <= nextSid
  <2>1. ASSUME NEW e \in gone, NEW r, r = SessionRow("REVOKED", g, e)
        PROVE  /\ r \in EventRow /\ Ended(r) /\ r.sid \in gone
               /\ r.sid # NoSid /\ r.sid # s /\ r.sid <= nextSid
    <3>1. e \in Range(open) /\ e \in Nat /\ e # NoSid /\ e <= nextSid
      BY <1>4, <1>5, Zenon DEF LogInv
    <3>2. r.type = "REVOKED" /\ r.gen = g /\ r.sid = e /\ r \in EventRow
      BY <2>1, <3>1 DEF SessionRow, EventRow
    <3>3. Ended(r)
      BY <3>2 DEF Ended
    <3> QED BY <3>1, <3>2, <3>3, Zenon
  <2> QED BY <2>1
<1>7. \A e \in gone : \E r \in rows : r.sid = e
  <2>1. \A e : SessionRow("REVOKED", g, e).sid = e
    BY DEF SessionRow
  <2> QED BY <2>1, Zenon
<1>8. signed \in EventRow /\ ~Ended(signed) /\ signed.sid = s
  BY DEF SessionRow, EventRow, Ended
<1> HIDE DEF rows, signed
<1>9. \A r \in audit' : r \in EventRow /\ r.sid <= nextSid'
  BY <1>1, <1>2, <1>6, <1>8, LeTrans, Zenon DEF EventRow
<1>10. \A x \in Range(open) : x \in Nat /\ x # NoSid /\ x <= nextSid /\ ~Named(x)
  BY <1>5, Zenon DEF LogInv
<1>11. \A x \in Range(open') : x # NoSid /\ x <= nextSid' /\ ~Named(x)'
  <2>1. ASSUME NEW x \in Range(open') PROVE x # NoSid /\ x <= nextSid' /\ ~Named(x)'
    <3>1. x # NoSid /\ x <= nextSid'
      BY <1>1, <1>4, <1>10, LeTrans, Zenon
    <3>2. ASSUME NEW r \in audit', Ended(r), r.sid = x PROVE FALSE
      <4>1. CASE r \in audit
        <5>1. Named(x)
          BY <3>2, <4>1, Zenon DEF Named
        <5>2. x # s
          BY <3>2, <4>1, Zenon
        <5> QED BY <1>4, <1>10, <5>1, <5>2, Zenon
      <4>2. CASE r \in rows
        BY <1>4, <1>6, <3>2, <4>2, Zenon
      <4> QED BY <1>2, <1>8, <3>2, <4>1, <4>2, Zenon
    <3> QED BY <3>1, <3>2, Zenon DEF Named
  <2> QED BY <2>1
<1>12. \A x : Named(x) \/ x \in gone => Named(x)'
  BY <1>2, <1>6, <1>7, Zenon DEF Named
<1>13. LogInv'
  <2>1. LogTyped'
    BY <1>1, <1>4, <1>9, Zenon DEF LogTyped, LogInv
  <2>2. \A r \in audit' : Ended(r) /\ r.sid = NoSid => r.gen <= gen
    BY <1>2, <1>6, <1>8, Zenon DEF LogInv
  <2>3. gen > 0 => \E r \in audit' : Ended(r) /\ r.sid = NoSid /\ r.gen = gen
    BY <1>2, Zenon DEF LogInv
  <2> QED BY <1>9, <1>11, <2>1, <2>2, <2>3, Zenon DEF LogInv
<1>14. ASSUME NEW h \in Nat, NEW x \in Nat, Vouched(h, x) PROVE Vouched(h, x)'
  <2>1. SessionRow("SIGNED_IN", h, x) \in audit'
    BY <1>2, <1>14, Zenon DEF Vouched
  <2>2. h = gen => x \in Range(open') \/ Named(x)'
    BY <1>4, <1>12, <1>14, Zenon DEF Vouched
  <2> QED BY <1>14, <2>1, <2>2, Zenon DEF Vouched
<1>15. ASSUME NEW x \in Nat, x # s, Unused(x) PROVE Unused(x)'
  <2>1. x # NoSid /\ x <= nextSid' /\ x \notin Range(open')
    BY <1>1, <1>4, <1>15, LeTrans, Zenon DEF Unused
  <2>2. \A r \in audit' : r.sid # x
    BY <1>2, <1>4, <1>6, <1>8, <1>15, Zenon DEF Unused
  <2> QED BY <2>1, <2>2, Zenon DEF Unused
<1>16. Vouched(g, s)'
  <2>1. SessionRow("SIGNED_IN", g, s) \in audit'
    BY <1>2, Zenon DEF signed
  <2> QED BY <1>4, <2>1, Zenon DEF Vouched
<1>17. gen' \in Nat /\ gen <= gen'
  BY <1>1
<1> QED BY <1>13, <1>14, <1>15, <1>16, <1>17, Zenon DEF Keeps

\* A session is closed by name.
LEMMA PullLog ==
    ASSUME LogInv, capped, NEW s \in Nat, NEW g \in Nat, Vouched(g, s), open' = RemoveFirst(open, s),
           audit' = audit \cup {SessionRow("SIGNED_OUT", gen, s)}, UNCHANGED <<capped, gen, nextSid>>
    PROVE  LogInv' /\ Keeps({})
<1> DEFINE row == SessionRow("SIGNED_OUT", gen, s)
<1>1. gen \in Nat /\ nextSid \in Nat /\ audit \subseteq EventRow /\ open \in Seq(Nat) /\ Distinct(open)
  BY DEF LogInv, LogTyped
<1>2. /\ open' \in Seq(Nat) /\ Distinct(open')
      /\ \A x : x \in Range(open') <=> x \in Range(open) /\ x # s
  <2>1. LET p == RemoveFirst(open, s)
        IN  p \in Seq(Nat) /\ Distinct(p) /\ \A x : x \in Range(p) <=> x \in Range(open) /\ x # s
    BY <1>1, Pulled, Zenon
  <2> QED BY <2>1, Zenon
<1>3. row \in EventRow /\ Ended(row) /\ row.sid = s
  BY <1>1 DEF SessionRow, EventRow, Ended
<1>4. SessionRow("SIGNED_IN", g, s) \in audit /\ SessionRow("SIGNED_IN", g, s).sid = s /\ s # NoSid
  <2>1. SessionRow("SIGNED_IN", g, s).sid = s
    BY DEF SessionRow
  <2> QED BY <2>1, Zenon DEF Vouched
<1>5. s <= nextSid
  BY <1>4, Zenon DEF LogInv
<1>6. audit' = audit \cup {row}
  OBVIOUS
<1> HIDE DEF row
<1>7. Named(s)' /\ \A x : Named(x) => Named(x)'
  BY <1>3, <1>6, Zenon DEF Named
<1>8. \A x : Named(x)' => Named(x) \/ x = s
  BY <1>3, <1>6, Zenon DEF Named
<1>9. LogInv'
  <2>1. LogTyped'
    <3>1. audit' \subseteq EventRow
      BY <1>1, <1>3, <1>6, Zenon
    <3> QED BY <1>1, <1>2, <3>1, Zenon DEF LogTyped, LogInv
  <2>2. \A r \in audit' : r.sid <= nextSid
    BY <1>3, <1>5, <1>6, Zenon DEF LogInv
  <2>3. \A r \in audit' : Ended(r) /\ r.sid = NoSid => r.gen <= gen
    BY <1>3, <1>4, <1>6, Zenon DEF LogInv
  <2>4. gen > 0 => \E r \in audit' : Ended(r) /\ r.sid = NoSid /\ r.gen = gen
    BY <1>6, Zenon DEF LogInv
  <2>5. \A x \in Range(open') : x # NoSid /\ x <= nextSid /\ ~Named(x)'
    BY <1>2, <1>8, Zenon DEF LogInv
  <2> QED BY <2>1, <2>2, <2>3, <2>4, <2>5, Zenon DEF LogInv
<1>10. ASSUME NEW h \in Nat, NEW x \in Nat, Vouched(h, x) PROVE Vouched(h, x)'
  <2>1. SessionRow("SIGNED_IN", h, x) \in audit'
    BY <1>6, <1>10, Zenon DEF Vouched
  <2>2. h = gen => x \in Range(open') \/ Named(x)'
    BY <1>2, <1>7, <1>10, Zenon DEF Vouched
  <2> QED BY <1>10, <2>1, <2>2, Zenon DEF Vouched
<1>11. ASSUME NEW x \in Nat, Unused(x) PROVE Unused(x)'
  <2>1. x # s
    BY <1>4, <1>11, Zenon DEF Unused
  <2> QED BY <1>2, <1>3, <1>6, <1>11, <2>1, Zenon DEF Unused
<1>12. gen' \in Nat /\ gen <= gen'
  BY <1>1
<1> QED BY <1>9, <1>10, <1>11, <1>12, Zenon DEF Keeps

LEMMA CallFields == \A c \in CallRow : c.gen \in Nat /\ c.sid \in Nat
BY DEF CallRow

\* The calls in flight: those that stay, and one that may join them.
LEMMA CallsStay ==
    ASSUME SessionInv, NEW X, Keeps(X), NEW F, F \subseteq flight, \A c \in F : c.kind = "login" => c.sid \notin X
    PROVE  /\ F \subseteq CallRow
           /\ \A c \in F : c.kind = "login" => c.gen <= gen' /\ Unused(c.sid)'
           /\ \A c, d \in F : c.kind = "login" /\ d.kind = "login" /\ c.sid = d.sid => c = d
           /\ \A c \in F : c.kind \in {"issue", "logout"} => Vouched(c.gen, c.sid)'
<1>1. CallsInv /\ gen \in Nat
  BY DEF SessionInv, LogInv, LogTyped
<1>2. F \subseteq CallRow /\ \A c \in F : c.gen \in Nat /\ c.sid \in Nat
  <2>1. F \subseteq CallRow
    BY <1>1, Zenon DEF CallsInv
  <2> QED BY <2>1, CallFields, Zenon
<1>3. gen' \in Nat /\ gen <= gen'
  BY DEF Keeps
<1>4. ASSUME NEW c \in F, c.kind = "login" PROVE c.gen <= gen' /\ Unused(c.sid)'
  <2>1. c.gen <= gen /\ Unused(c.sid)
    BY <1>1, <1>4, Zenon DEF CallsInv
  <2>2. c.gen <= gen'
    BY <1>1, <1>2, <1>3, <2>1, LeTrans, Zenon
  <2> QED BY <1>2, <1>4, <2>1, <2>2, Zenon DEF Keeps
<1>5. ASSUME NEW c \in F, c.kind \in {"issue", "logout"} PROVE Vouched(c.gen, c.sid)'
  <2>1. Vouched(c.gen, c.sid)
    BY <1>1, <1>5, Zenon DEF CallsInv
  <2> QED BY <1>2, <2>1, Zenon DEF Keeps
<1> QED BY <1>1, <1>2, <1>4, <1>5, Zenon DEF CallsInv

Sound(n) ==
    /\ n.kind = "login" => n.gen <= gen /\ Unused(n.sid)
    /\ n.kind \in {"issue", "logout"} => Vouched(n.gen, n.sid)

Apart(F, n) == \A c \in F : c.kind = "login" /\ n.kind = "login" => c.sid # n.sid
Outside(F, X) == \A c \in F : c.kind = "login" => c.sid \notin X

LEMMA CallJoins ==
    ASSUME SessionInv, NEW X, Keeps(X), NEW F, F \subseteq flight, Outside(F, X),
           NEW n, n \in CallRow, flight' = F \cup {n}, Apart(F, n), Sound(n)'
    PROVE  CallsInv'
<1>0. /\ n.kind = "login" => n.gen <= gen' /\ Unused(n.sid)' /\ \A c \in F : c.kind = "login" => c.sid # n.sid
      /\ n.kind \in {"issue", "logout"} => Vouched(n.gen, n.sid)'
      /\ \A c \in F : c.kind = "login" => c.sid \notin X
  BY Zenon DEF Sound, Apart, Outside
<1>1. /\ F \subseteq CallRow
      /\ \A c \in F : c.kind = "login" => c.gen <= gen' /\ Unused(c.sid)'
      /\ \A c, d \in F : c.kind = "login" /\ d.kind = "login" /\ c.sid = d.sid => c = d
      /\ \A c \in F : c.kind \in {"issue", "logout"} => Vouched(c.gen, c.sid)'
  BY <1>0, CallsStay, Zenon
<1>2. flight' \subseteq CallRow
  BY <1>0, <1>1, Zenon
<1>3. \A c \in flight' : c.kind = "login" => c.gen <= gen' /\ Unused(c.sid)'
  BY <1>0, <1>1, Zenon
<1>4. \A c, d \in flight' : c.kind = "login" /\ d.kind = "login" /\ c.sid = d.sid => c = d
  BY <1>0, <1>1, Zenon
<1>5. \A c \in flight' : c.kind \in {"issue", "logout"} => Vouched(c.gen, c.sid)'
  BY <1>0, <1>1, Zenon
<1> QED BY <1>2, <1>3, <1>4, <1>5, Zenon DEF CallsInv

\* Tokens and guesses that stay, and the one that moves.
LEMMA HoldersStay ==
    ASSUME SessionInv, NEW X, Keeps(X)
    PROVE  /\ tokens' = tokens => TokensInv'
           /\ \A x : SignInGuess(x) => SignInGuess(x)'
<1>1. TokensInv /\ gen \in Nat /\ gen' \in Nat /\ gen <= gen'
  BY DEF SessionInv, LogInv, LogTyped, Keeps
<1>2. ASSUME NEW t \in tokens PROVE Vouched(t.gen, t.sid)'
  <2>1. t.gen \in Nat /\ t.sid \in Nat /\ Vouched(t.gen, t.sid)
    BY <1>1 DEF TokensInv, TokenRow
  <2> QED BY <2>1, Zenon DEF Keeps
<1>3. ASSUME NEW x, SignInGuess(x) PROVE SignInGuess(x)'
  <2>1. x.pc = "right" => x.gen \in Nat /\ x.gen <= gen'
    BY <1>1, <1>3, LeTrans, Zenon DEF SignInGuess
  <2>2. x.pc = "clear" => x.gen \in Nat /\ x.sid \in Nat /\ Vouched(x.gen, x.sid)'
    BY <1>3, Zenon DEF SignInGuess, Keeps
  <2> QED BY <2>1, <2>2, Zenon DEF SignInGuess
<1>4. tokens' = tokens => TokensInv'
  BY <1>1, <1>2, Zenon DEF TokensInv
<1> QED BY <1>3, <1>4, Zenon

LEMMA GuessesStay == ASSUME SessionInv, NEW X, Keeps(X), guess' = guess PROVE GuessesInv'
<1>1. \A v \in Verifiers : SignInGuess(guess[v])
  BY DEF SessionInv, GuessesInv
<1>2. \A x : SignInGuess(x) => SignInGuess(x)'
  BY HoldersStay, Zenon
<1>3. ASSUME NEW v \in Verifiers PROVE SignInGuess(guess[v])'
  <2>1. PICK x : x = guess[v]
    OBVIOUS
  <2>2. SignInGuess(x)'
    BY <1>1, <1>2, <2>1, Zenon
  <2>3. x = guess'[v]
    BY <2>1, Zenon
  <2> QED BY <2>2, <2>3, Zenon DEF SignInGuess
<1> QED BY <1>3, Zenon DEF GuessesInv

LEMMA GuessMovesOn ==
    ASSUME SessionInv, NEW X, Keeps(X), NEW v \in Verifiers, NEW r, Differs(guess, guess', v), guess'[v] = r, SignInGuess(r)'
    PROVE  GuessesInv'
<1>1. \A w \in Verifiers : SignInGuess(guess[w])
  BY DEF SessionInv, GuessesInv
<1>2. \A x : SignInGuess(x) => SignInGuess(x)'
  BY HoldersStay, Zenon
<1>3. ASSUME NEW w \in Verifiers PROVE SignInGuess(guess[w])'
  <2>1. PICK x : x = guess'[w]
    OBVIOUS
  <2>2. CASE w = v
    <3>1. SignInGuess(x)'
      BY <2>1, <2>2, Zenon
    <3> QED BY <2>1, <3>1, Zenon DEF SignInGuess
  <2>3. CASE w # v
    <3>1. x = guess[w]
      BY <2>1, <2>3, Zenon DEF Differs
    <3>2. SignInGuess(x)'
      BY <1>1, <1>2, <3>1, Zenon
    <3> QED BY <2>1, <3>2, Zenon DEF SignInGuess
  <2> QED BY <2>2, <2>3
<1> QED BY <1>3, Zenon DEF GuessesInv

LEMMA SessionFacts ==
    ASSUME SessionInv
    PROVE  /\ LogInv /\ CallsInv /\ TokensInv /\ GuessesInv
           /\ gen \in Nat /\ nextSid \in Nat /\ capped \in BOOLEAN /\ nextSid <= nextSid
           /\ \A c \in flight : c \in CallRow /\ c.gen \in Nat /\ c.sid \in Nat
           /\ \A t \in tokens : t.gen \in Nat /\ t.sid \in Nat /\ Vouched(t.gen, t.sid)
<1>1. LogInv /\ CallsInv /\ TokensInv /\ GuessesInv
  BY Zenon DEF SessionInv
<1>2. gen \in Nat /\ nextSid \in Nat /\ capped \in BOOLEAN
  BY <1>1, Zenon DEF LogInv, LogTyped
<1>3. nextSid <= nextSid
  BY <1>2
<1>4. \A c \in flight : c \in CallRow /\ c.gen \in Nat /\ c.sid \in Nat
  BY <1>1, CallFields, Zenon DEF CallsInv
<1>5. \A t \in TokenRow : t.gen \in Nat /\ t.sid \in Nat
  BY DEF TokenRow
<1>6. \A t \in tokens : t.gen \in Nat /\ t.sid \in Nat /\ Vouched(t.gen, t.sid)
  BY <1>1, <1>5, Zenon DEF TokensInv
<1> QED BY <1>1, <1>2, <1>3, <1>4, <1>6, Zenon

\* A step that leaves the log, the list and the generation alone.
LEMMA QuietKeeps ==
    ASSUME SessionInv, UNCHANGED <<capped, gen, open, audit, nextSid>>
    PROVE  LogInv' /\ Keeps({})
<1>1. LogInv /\ nextSid' \in Nat /\ nextSid <= nextSid'
  BY SessionFacts, Zenon
<1> QED BY <1>1, SameLog, Zenon

LEMMA LoginAnswers == ASSUME SessionInv, Login, guess' = guess PROVE SessionInv'
<1>1. /\ nextSid' = nextSid + 1 /\ flight' = flight \cup {[kind |-> "login", gen |-> gen, sid |-> nextSid + 1]}
      /\ UNCHANGED <<capped, gen, open, tokens, audit>>
  BY Zenon DEF Login, Starts
<1>2. LogInv /\ gen \in Nat /\ nextSid \in Nat
  BY SessionFacts, Zenon
<1>3. PICK s : s = nextSid + 1
  OBVIOUS
<1>4. PICK g : g = gen
  OBVIOUS
<1> DEFINE n == [kind |-> "login", gen |-> g, sid |-> s]
<1>5. /\ s \in Nat /\ nextSid <= s /\ s # NoSid /\ s <= s /\ g \in Nat /\ g <= g
      /\ \A x \in Nat : x <= nextSid => x # s
  BY <1>2, <1>3, <1>4 DEF NoSid
<1>6. n \in CallRow /\ n.kind = "login" /\ n.gen = g /\ n.sid = s /\ n.kind \notin {"issue", "logout"}
  BY <1>5 DEF CallRow
<1>7. flight' = flight \cup {n} /\ nextSid' = s
  BY <1>1, <1>3, <1>4, Zenon
<1> HIDE DEF n
<1>8. LogInv' /\ Keeps({})
  BY <1>1, <1>2, <1>5, <1>7, SameLog, Zenon
<1>9. Unused(s)'
  <2>1. \A r \in audit : r.sid \in Nat /\ r.sid <= nextSid
    <3>1. \A r \in EventRow : r.sid \in Nat
      BY DEF EventRow
    <3> QED BY <1>2, <3>1, Zenon DEF LogInv, LogTyped
  <2>2. \A x \in Range(open) : x \in Nat /\ x <= nextSid
    <3>1. open \in Seq(Nat)
      BY <1>2, Zenon DEF LogInv, LogTyped
    <3>2. Range(open) \subseteq Nat
      BY <3>1 DEF Range
    <3> QED BY <1>2, <3>2, Zenon DEF LogInv
  <2> QED BY <1>1, <1>5, <1>7, <2>1, <2>2, Zenon DEF Unused
<1>10. \A c \in flight : c.kind = "login" => c.sid # s
  <2>1. \A c \in flight : c.kind = "login" => c.sid \in Nat /\ c.sid <= nextSid
    BY SessionFacts, Zenon DEF CallsInv, Unused
  <2> QED BY <1>5, <2>1, Zenon
<1>11. CallsInv'
  <2>1. flight \subseteq flight /\ Outside(flight, {})
    BY DEF Outside
  <2>2. Sound(n)'
    BY <1>1, <1>4, <1>5, <1>6, <1>9, Zenon DEF Sound
  <2>3. Apart(flight, n)
    BY <1>6, <1>10, Zenon DEF Apart
  <2> QED BY <1>6, <1>7, <1>8, <2>1, <2>2, <2>3, CallJoins, Zenon
<1>12. TokensInv'
  BY <1>1, <1>8, HoldersStay, Zenon
<1>13. GuessesInv'
  BY <1>8, GuessesStay, Zenon
<1> QED BY <1>8, <1>11, <1>12, <1>13, Zenon DEF SessionInv

\* The rest is left alone.
LEMMA SessionKept ==
    ASSUME SessionInv, NEW X, Keeps(X), LogInv', CallsInv', tokens' = tokens, guess' = guess
    PROVE  SessionInv'
<1>1. TokensInv'
  BY HoldersStay, Zenon
<1>2. GuessesInv'
  BY GuessesStay, Zenon
<1> QED BY <1>1, <1>2, Zenon DEF SessionInv

LEMMA CallsGo ==
    ASSUME SessionInv, NEW X, Keeps(X), flight' \subseteq flight, Outside(flight', X)
    PROVE  CallsInv'
<1>0. \A c \in flight' : c.kind = "login" => c.sid \notin X
  BY Zenon DEF Outside
<1>1. /\ flight' \subseteq CallRow
      /\ \A c \in flight' : c.kind = "login" => c.gen <= gen' /\ Unused(c.sid)'
      /\ \A c, d \in flight' : c.kind = "login" /\ d.kind = "login" /\ c.sid = d.sid => c = d
      /\ \A c \in flight' : c.kind \in {"issue", "logout"} => Vouched(c.gen, c.sid)'
  BY <1>0, CallsStay, Zenon
<1> QED BY <1>1, Zenon DEF CallsInv

LEMMA NothingOutside == \A F : Outside(F, {})
BY DEF Outside

LEMMA QuietAnswers ==
    ASSUME SessionInv, UNCHANGED <<capped, gen, open, audit, nextSid, tokens, guess, flight>>
    PROVE  SessionInv'
<1>1. LogInv' /\ Keeps({})
  BY QuietKeeps, Zenon
<1>2. CallsInv'
  BY <1>1, NothingOutside, CallsGo, Zenon
<1> QED BY <1>1, <1>2, SessionKept, Zenon

\* What ends everything, and the calls that remain.
LEMMA EndsAll ==
    ASSUME SessionInv, NEW rows, RevokeAllSessions(rows), UNCHANGED <<capped, nextSid, tokens, guess>>, flight' \subseteq flight,
           rows = {SessionRow("REVOKED", gen + 1, NoSid)} \/ rows = {SessionRow("SIGNED_OUT", gen + 1, NoSid)}
    PROVE  SessionInv'
<1>1. gen' = gen + 1 /\ open' = <<>> /\ audit' = audit \cup rows
  BY Zenon DEF RevokeAllSessions
<1>2. LogInv /\ gen \in Nat
  BY SessionFacts, Zenon
<1>3. \A r \in rows : r \in EventRow /\ r.gen = gen + 1 /\ r.sid = NoSid /\ Ended(r)
  BY <1>2 DEF SessionRow, EventRow, Ended, NoSid
<1>4. \E r \in rows : Ended(r)
  <2>1. rows # {}
    OBVIOUS
  <2> QED BY <1>3, <2>1
<1>5. LogInv' /\ Keeps({})
  BY <1>1, <1>2, <1>3, <1>4, BumpLog, Zenon
<1>6. CallsInv'
  BY <1>5, NothingOutside, CallsGo, Zenon
<1> QED BY <1>5, <1>6, SessionKept, Zenon

LEMMA MobileAnswers ==
    ASSUME SessionInv, NEW c \in flight, MobileLogin(c), guess' = guess PROVE SessionInv'
<1>1. PICK g : g = gen + 1
  OBVIOUS
<1> DEFINE out == SessionRow("REVOKED", g, NoSid)
           in == SessionRow("SIGNED_IN", g, NoSid)
           n == [kind |-> "issue", gen |-> g, sid |-> NoSid]
           F == flight \ {c}
<1>2. /\ ~capped /\ gen' = g /\ open' = <<>> /\ audit' = audit \cup {out, in} /\ flight' = F \cup {n}
      /\ UNCHANGED <<capped, nextSid, tokens>>
  BY <1>1, Zenon DEF MobileLogin, RevokeAllSessions
<1>3. LogInv /\ gen \in Nat
  BY SessionFacts, Zenon
<1>4. g \in Nat /\ g <= g
  BY <1>1, <1>3
<1>5. /\ out \in EventRow /\ out.gen = g /\ out.sid = NoSid /\ Ended(out)
      /\ in \in EventRow /\ in.gen = g /\ in.sid = NoSid
  BY <1>4 DEF SessionRow, EventRow, Ended, NoSid
<1>6. n \in CallRow /\ n.kind = "issue" /\ n.gen = g /\ n.sid = NoSid /\ n.kind # "login"
  BY <1>4 DEF CallRow, NoSid
<1> HIDE DEF out, n
<1>7. LogInv' /\ Keeps({})
  <2> DEFINE rows == {out, in}
  <2> HIDE DEF in
  <2>1. \A r \in rows : r \in EventRow /\ r.gen = gen + 1 /\ r.sid = NoSid
    BY <1>1, <1>5, Zenon
  <2>2. \E r \in rows : Ended(r)
    BY <1>5, Zenon
  <2>3. audit' = audit \cup rows
    BY <1>2, Zenon
  <2> HIDE DEF rows
  <2>4. gen' = gen + 1
    BY <1>1, <1>2, Zenon
  <2> QED BY <1>2, <1>3, <2>1, <2>2, <2>3, <2>4, BumpLog, Zenon
<1>8. Vouched(g, NoSid)'
  BY <1>2, <1>4, Zenon DEF Vouched
<1>9. Sound(n)'
  BY <1>6, <1>8, Zenon DEF Sound
<1>10. CallsInv'
  <2>1. F \subseteq flight /\ Apart(F, n)
    BY <1>6, Zenon DEF Apart
  <2> HIDE DEF F
  <2> QED BY <1>2, <1>6, <1>7, <1>9, <2>1, NothingOutside, CallJoins, Zenon
<1> QED BY <1>2, <1>7, <1>10, SessionKept, Zenon

LEMMA AdminAnswers ==
    ASSUME SessionInv, NEW c \in flight, AdminLogin(c), guess' = guess PROVE SessionInv'
<1> DEFINE n == [c EXCEPT !.kind = "issue"]
           F == flight \ {c}
<1>1. /\ c.kind = "login" /\ capped /\ OpenSession(c.sid, c.gen) /\ flight' = F \cup {n}
      /\ UNCHANGED <<capped, gen, nextSid, tokens>>
  BY Zenon DEF AdminLogin
<1>2. LogInv /\ CallsInv /\ nextSid \in Nat /\ nextSid <= nextSid /\ c \in CallRow /\ c.gen \in Nat /\ c.sid \in Nat
  BY SessionFacts, Zenon
<1>3. n \in CallRow /\ n.kind = "issue" /\ n.gen = c.gen /\ n.sid = c.sid /\ n.kind # "login"
  BY <1>2 DEF CallRow
<1> HIDE DEF n
<1>4. c.gen <= gen /\ Unused(c.sid)
  BY <1>1, <1>2, Zenon DEF CallsInv
<1>5. c.sid # NoSid /\ c.sid \notin Range(open) /\ c.sid <= nextSid /\ \A r \in audit : r.sid # c.sid
  BY <1>4, Zenon DEF Unused
<1>6. nextSid' \in Nat /\ nextSid <= nextSid' /\ c.sid <= nextSid'
  BY <1>1, <1>2, <1>5, Zenon
<1>7. LogInv' /\ Keeps({c.sid}) /\ Vouched(c.gen, c.sid)'
  BY <1>1, <1>2, <1>4, <1>5, <1>6, OpenLog, Zenon
<1>8. Outside(F, {c.sid})
  BY <1>1, <1>2, Zenon DEF Outside, CallsInv
<1>9. Sound(n)'
  BY <1>3, <1>7, Zenon DEF Sound
<1>10. CallsInv'
  <2>1. F \subseteq flight /\ Apart(F, n)
    BY <1>3, Zenon DEF Apart
  <2> HIDE DEF F
  <2> QED BY <1>1, <1>3, <1>7, <1>8, <1>9, <2>1, CallJoins, Zenon
<1> QED BY <1>1, <1>7, <1>10, SessionKept, Zenon

LEMMA TokenSigned ==
    ASSUME SessionInv, NEW X, Keeps(X), NEW g \in Nat, NEW s \in Nat, Vouched(g, s),
           tokens' = tokens \cup {[gen |-> g, sid |-> s]}
    PROVE  TokensInv'
<1> DEFINE t == [gen |-> g, sid |-> s]
<1>1. t \in TokenRow /\ t.gen = g /\ t.sid = s
  BY DEF TokenRow
<1>2. Vouched(g, s)'
  BY Zenon DEF Keeps
<1>3. tokens' = tokens \cup {t}
  OBVIOUS
<1> HIDE DEF t
<1>4. \A x \in tokens : x \in TokenRow /\ x.gen \in Nat /\ x.sid \in Nat /\ Vouched(x.gen, x.sid)
  BY SessionFacts, Zenon DEF TokensInv
<1>5. \A x \in tokens : Vouched(x.gen, x.sid)'
  BY <1>4, Zenon DEF Keeps
<1> QED BY <1>1, <1>2, <1>3, <1>4, <1>5, Zenon DEF TokensInv

LEMMA IssueAnswers ==
    ASSUME SessionInv, NEW c \in flight, IssueTokenPair(c), guess' = guess PROVE SessionInv'
<1>1. /\ c.kind = "issue" /\ tokens' = tokens \cup {[gen |-> c.gen, sid |-> c.sid]} /\ flight' = flight \ {c}
      /\ UNCHANGED <<capped, gen, open, nextSid, audit>>
  BY Zenon DEF IssueTokenPair
<1>2. CallsInv /\ c.gen \in Nat /\ c.sid \in Nat
  BY SessionFacts, Zenon
<1>3. Vouched(c.gen, c.sid)
  <2>1. c.kind \in {"issue", "logout"}
    BY <1>1
  <2> QED BY <1>2, <2>1, Zenon DEF CallsInv
<1>4. LogInv' /\ Keeps({})
  BY <1>1, QuietKeeps, Zenon
<1>5. flight' \subseteq flight
  BY <1>1
<1>6. CallsInv'
  BY <1>4, <1>5, NothingOutside, CallsGo, Zenon
<1>7. TokensInv'
  BY <1>1, <1>2, <1>3, <1>4, TokenSigned, Zenon
<1>8. GuessesInv'
  BY <1>4, GuessesStay, Zenon
<1> QED BY <1>4, <1>6, <1>7, <1>8, Zenon DEF SessionInv

\* A call for a session that is vouched for, or for none, joins those in flight.
LEMMA CallStarts ==
    ASSUME SessionInv, NEW n \in CallRow, n.kind # "login", n.kind \in {"issue", "logout"} => Vouched(n.gen, n.sid),
           flight' = flight \cup {n}, UNCHANGED <<capped, gen, open, audit, nextSid, tokens, guess>>
    PROVE  SessionInv'
<1>1. LogInv' /\ Keeps({})
  BY QuietKeeps, Zenon
<1>2. n.gen \in Nat /\ n.sid \in Nat
  BY CallFields, Zenon
<1>3. Sound(n)'
  BY <1>1, <1>2, Zenon DEF Sound, Keeps
<1>4. flight \subseteq flight /\ Apart(flight, n)
  BY Zenon DEF Apart
<1>5. CallsInv'
  BY <1>1, <1>3, <1>4, NothingOutside, CallJoins, Zenon
<1> QED BY <1>1, <1>5, SessionKept, Zenon

LEMMA TokenCallAnswers ==
    ASSUME SessionInv, NEW t \in tokens, Refresh(t) \/ Logout(t), guess' = guess PROVE SessionInv'
<1>1. /\ t.gen = gen /\ UNCHANGED <<capped, gen, open, audit, nextSid, tokens>>
      /\ \/ flight' = flight \cup {[kind |-> "issue", gen |-> t.gen, sid |-> t.sid]}
         \/ flight' = flight \cup {[kind |-> "logout", gen |-> t.gen, sid |-> t.sid]}
  BY Zenon DEF Refresh, Logout, ValidateActiveSession, Current, Starts
<1>2. t.gen \in Nat /\ t.sid \in Nat /\ Vouched(t.gen, t.sid)
  BY SessionFacts, Zenon
<1>3. ASSUME NEW k \in {"issue", "logout"}, flight' = flight \cup {[kind |-> k, gen |-> t.gen, sid |-> t.sid]}
      PROVE  SessionInv'
  <2> DEFINE n == [kind |-> k, gen |-> t.gen, sid |-> t.sid]
  <2>1. n \in CallRow /\ n.kind # "login" /\ n.gen = t.gen /\ n.sid = t.sid
    BY <1>2 DEF CallRow
  <2>2. flight' = flight \cup {n}
    BY <1>3
  <2> HIDE DEF n
  <2>3. Vouched(n.gen, n.sid)
    BY <1>2, <2>1, Zenon
  <2> QED BY <1>1, <2>1, <2>2, <2>3, CallStarts, Zenon
<1> QED BY <1>1, <1>3, Zenon

LEMMA LogoutAnswers ==
    ASSUME SessionInv, NEW c \in flight, LogoutCommit(c), guess' = guess PROVE SessionInv'
<1>1. c.kind = "logout" /\ flight' = flight \ {c} /\ UNCHANGED <<capped, nextSid, tokens>>
  BY Zenon DEF LogoutCommit
<1>2. LogInv /\ CallsInv /\ c.gen \in Nat /\ c.sid \in Nat
  BY SessionFacts, Zenon
<1>3. flight' \subseteq flight
  BY <1>1
<1>4. CASE capped
  <2>1. open' = RemoveFirst(open, c.sid) /\ audit' = audit \cup {SessionRow("SIGNED_OUT", gen, c.sid)} /\ UNCHANGED gen
    BY <1>4, Zenon DEF LogoutCommit
  <2>2. Vouched(c.gen, c.sid)
    <3>1. c.kind \in {"issue", "logout"}
      BY <1>1
    <3> QED BY <1>2, <3>1, Zenon DEF CallsInv
  <2>3. LogInv' /\ Keeps({})
    BY <1>1, <1>2, <1>4, <2>1, <2>2, PullLog, Zenon
  <2>4. CallsInv'
    BY <1>3, <2>3, NothingOutside, CallsGo, Zenon
  <2> QED BY <1>1, <2>3, <2>4, SessionKept, Zenon
<1>5. CASE ~capped
  <2>1. PICK rows : rows = {SessionRow("SIGNED_OUT", gen + 1, NoSid)}
    OBVIOUS
  <2>2. RevokeAllSessions(rows)
    BY <1>5, <2>1, Zenon DEF LogoutCommit
  <2> QED BY <1>1, <1>3, <2>1, <2>2, EndsAll, Zenon
<1> QED BY <1>4, <1>5

LEMMA ResetAnswers ==
    ASSUME SessionInv, NEW c \in flight, ResetCommit(c), guess' = guess PROVE SessionInv'
<1>1. PICK rows : rows = {SessionRow("REVOKED", gen + 1, NoSid)}
  OBVIOUS
<1>2. RevokeAllSessions(rows) /\ flight' = flight \ {c} /\ UNCHANGED <<capped, nextSid, tokens>>
  BY <1>1, Zenon DEF ResetCommit
<1>3. flight' \subseteq flight
  BY <1>2
<1> QED BY <1>1, <1>2, <1>3, EndsAll, Zenon

LEMMA DeactivateAnswers == ASSUME SessionInv, Deactivate, guess' = guess PROVE SessionInv'
<1>1. PICK rows : rows = {SessionRow("REVOKED", gen + 1, NoSid)}
  OBVIOUS
<1>2. RevokeAllSessions(rows) /\ flight' = flight /\ UNCHANGED <<capped, nextSid, tokens>>
  BY <1>1, Zenon DEF Deactivate
<1>3. flight' \subseteq flight
  BY <1>2
<1> QED BY <1>1, <1>2, <1>3, EndsAll, Zenon

LEMMA RequestResetAnswers == ASSUME SessionInv, RequestReset, guess' = guess PROVE SessionInv'
<1> DEFINE away(c) == [c EXCEPT !.kind = "superseded"]
           F == {c \in flight : c.kind # "reset"}
<1>1. UNCHANGED <<capped, gen, open, nextSid, tokens, audit>>
  BY Zenon DEF RequestReset
<1>2. \A c \in flight' : c \in F \/ \E d \in flight : c = away(d)
  BY DEF RequestReset
<1>3. \A d \in CallRow : away(d) \in CallRow /\ away(d).kind = "superseded"
  BY DEF CallRow
<1> HIDE DEF away
<1>4. \A c \in flight' : c \in F \/ (c \in CallRow /\ c.kind = "superseded")
  BY <1>2, <1>3, SessionFacts, Zenon
<1>5. LogInv' /\ Keeps({})
  BY <1>1, QuietKeeps, Zenon
<1>6. F \subseteq flight /\ \A c \in F : c.kind = "login" => c.sid \notin {}
  OBVIOUS
<1> HIDE DEF F
<1>7. /\ F \subseteq CallRow
      /\ \A c \in F : c.kind = "login" => c.gen <= gen' /\ Unused(c.sid)'
      /\ \A c, d \in F : c.kind = "login" /\ d.kind = "login" /\ c.sid = d.sid => c = d
      /\ \A c \in F : c.kind \in {"issue", "logout"} => Vouched(c.gen, c.sid)'
  BY <1>5, <1>6, CallsStay, Zenon
<1>8. "superseded" # "login" /\ "superseded" \notin {"issue", "logout"}
  OBVIOUS
<1>9. flight' \subseteq CallRow
  BY <1>4, <1>7, Zenon
<1>10. \A c \in flight' : c.kind = "login" \/ c.kind \in {"issue", "logout"} => c \in F
  BY <1>4, <1>8, Zenon
<1>11. CallsInv'
  BY <1>7, <1>9, <1>10, Zenon DEF CallsInv
<1> QED BY <1>1, <1>5, <1>11, SessionKept, Zenon

LEMMA CompleteResetAnswers == ASSUME SessionInv, CompleteReset, guess' = guess PROVE SessionInv'
<1> DEFINE n == [kind |-> "reset", gen |-> 0, sid |-> NoSid]
<1>1. flight' = flight \cup {n} /\ UNCHANGED <<capped, gen, open, nextSid, tokens, audit>>
  BY Zenon DEF CompleteReset, Starts
<1>2. n \in CallRow /\ n.kind # "login" /\ n.kind \notin {"issue", "logout"}
  BY DEF CallRow, NoSid
<1> HIDE DEF n
<1> QED BY <1>1, <1>2, CallStarts, Zenon

LEMMA SessionsStep ==
    ASSUME SessionInv, SessionsNext, guess' = guess PROVE SessionInv'
<1>1. CASE VerifyReset \/ Activate \/ SetCompanyStatus
  <2>1. UNCHANGED <<capped, gen, open, audit, nextSid, tokens, flight>>
    BY <1>1, Zenon DEF VerifyReset, Activate, SetCompanyStatus
  <2> QED BY <2>1, QuietAnswers, Zenon
<1>2. CASE Login \/ RequestReset \/ CompleteReset \/ Deactivate
  BY <1>2, LoginAnswers, RequestResetAnswers, CompleteResetAnswers, DeactivateAnswers, Zenon
<1>3. ASSUME NEW c \in flight,
             MobileLogin(c) \/ AdminLogin(c) \/ IssueTokenPair(c) \/ LogoutCommit(c) \/ ResetCommit(c)
      PROVE  SessionInv'
  BY <1>3, MobileAnswers, AdminAnswers, IssueAnswers, LogoutAnswers, ResetAnswers, Zenon
<1>4. ASSUME NEW t \in tokens, Refresh(t) \/ Logout(t) PROVE SessionInv'
  BY <1>4, TokenCallAnswers, Zenon
<1> QED BY <1>1, <1>2, <1>3, <1>4, Zenon DEF SessionsNext

\* A verifier moves on without touching a session.
LEMMA VerifierAnswers ==
    ASSUME SessionInv, MeterInv, NEW v \in Verifiers, NEW r, guess' = [guess EXCEPT ![v] = r], SignInGuess(r),
           UNCHANGED sessionVars
    PROVE  SessionInv'
<1>1. UNCHANGED <<capped, gen, open, audit, nextSid, tokens, flight>>
  BY DEF sessionVars
<1>2. LogInv' /\ Keeps({})
  BY <1>1, QuietKeeps, Zenon
<1>3. flight' \subseteq flight
  BY <1>1
<1>4. CallsInv'
  BY <1>2, <1>3, NothingOutside, CallsGo, Zenon
<1>5. TokensInv' /\ \A x : SignInGuess(x) => SignInGuess(x)'
  BY <1>1, <1>2, HoldersStay, Zenon
<1>6. Differs(guess, guess', v) /\ guess'[v] = r
  <2>1. DOMAIN guess = Verifiers
    BY DEF MeterInv, MeterTyped
  <2> QED BY <2>1 DEF Differs
<1>7. SignInGuess(r)'
  BY <1>5, Zenon
<1>8. GuessesInv'
  BY <1>2, <1>6, <1>7, GuessMovesOn, Zenon
<1> QED BY <1>2, <1>4, <1>5, <1>8, Zenon DEF SessionInv

LEMMA OtherGuess == ASSUME NEW r, r.pc \notin {"right", "clear"} PROVE SignInGuess(r)
BY DEF SignInGuess

LEMMA VerifierStep ==
    ASSUME SessionInv, MeterInv, NEW v \in Verifiers, UNCHANGED sessionVars,
           \/ AssertNotBlocked(v) \/ VerifyCode(v) \/ CountAttempt(v) \/ RecordVerificationFailure(v)
           \/ SetBlock(v) \/ VerifierDies(v)
    PROVE  SessionInv'
<1>0. Waiting.pc \notin {"right", "clear"}
  BY DEF Waiting
<1>1. ASSUME NEW r, guess' = [guess EXCEPT ![v] = r], r.pc \notin {"right", "clear"} PROVE SessionInv'
  BY <1>1, OtherGuess, VerifierAnswers, Zenon
<1>2. CASE SetBlock(v) \/ VerifierDies(v)
  <2>1. guess' = [guess EXCEPT ![v] = Waiting]
    BY <1>2, Zenon DEF SetBlock, VerifierDies
  <2> QED BY <1>0, <1>1, <2>1, Zenon
<1>3. CASE AssertNotBlocked(v)
  <2>1. guess' = [guess EXCEPT ![v] = Idle("checked")]
    BY <1>3, Zenon DEF AssertNotBlocked
  <2>2. Idle("checked").pc \notin {"right", "clear"}
    BY DEF Idle
  <2> QED BY <1>1, <2>1, <2>2, Zenon
<1>4. CASE CountAttempt(v) \/ RecordVerificationFailure(v)
  <2>1. PICK x : x = guess[v]
    OBVIOUS
  <2>2. \/ guess' = [guess EXCEPT ![v] = [x EXCEPT !.pc = "fail"]]
        \/ guess' = [guess EXCEPT ![v] = [x EXCEPT !.pc = "block"]]
        \/ guess' = [guess EXCEPT ![v] = Waiting]
    BY <1>4, <2>1 DEF CountAttempt, RecordVerificationFailure
  <2>3. GuessRecord(x)
    <3>1. x = Waiting \/ GuessRecord(x)
      BY <2>1, Zenon DEF MeterInv, MeterTyped
    <3>2. x.pc \in {"wrong", "fail"}
      BY <1>4, <2>1 DEF CountAttempt, RecordVerificationFailure
    <3> QED BY <3>1, <3>2 DEF Waiting
  <2>4. \A k \in {"fail", "block"} : [x EXCEPT !.pc = k].pc \notin {"right", "clear"}
    BY <2>3 DEF GuessRecord
  <2> QED BY <1>0, <1>1, <2>2, <2>4, Zenon
<1>5. CASE VerifyCode(v)
  <2>1. PICK g : g = gen
    OBVIOUS
  <2>2. PICK i : i = Newest.id
    OBVIOUS
  <2> DEFINE rec(pc, j) == [pc |-> pc, id |-> j, gen |-> g, sid |-> NoSid]
  <2>3. \/ guess' = [guess EXCEPT ![v] = rec("fail", 0)]
        \/ guess' = [guess EXCEPT ![v] = rec("wrong", i)]
        \/ guess' = [guess EXCEPT ![v] = rec("right", i)]
    BY <1>5, <2>1, <2>2, Zenon DEF VerifyCode
  <2>4. /\ rec("fail", 0).pc \notin {"right", "clear"} /\ rec("wrong", i).pc \notin {"right", "clear"}
        /\ rec("right", i).pc = "right" /\ rec("right", i).pc # "clear" /\ rec("right", i).gen = g
    OBVIOUS
  <2> HIDE DEF rec
  <2>5. g \in Nat /\ g <= gen
    <3>1. gen \in Nat
      BY SessionFacts, Zenon
    <3> QED BY <2>1, <3>1
  <2>6. SignInGuess(rec("right", i))
    BY <2>4, <2>5, Zenon DEF SignInGuess
  <2>7. CASE guess' = [guess EXCEPT ![v] = rec("right", i)]
    <3>1. PICK r : r = rec("right", i)
      OBVIOUS
    <3> QED BY <2>6, <2>7, <3>1, VerifierAnswers, Zenon
  <2> QED BY <1>1, <2>3, <2>4, <2>7, Zenon
<1> QED BY <1>2, <1>3, <1>4, <1>5

LEMMA SignInAnswers ==
    ASSUME SessionInv, MeterInv, capped, NEW v \in Verifiers, SignInByCode(v) PROVE SessionInv'
<1>1. PICK s : s = nextSid + 1
  OBVIOUS
<1>2. PICK x : x = guess[v]
  OBVIOUS
<1> DEFINE r == [x EXCEPT !.pc = "clear", !.sid = s]
<1>3. /\ x.pc = "right" /\ nextSid' = s /\ OpenSession(s, x.gen) /\ UNCHANGED <<capped, gen, tokens, flight>>
  BY <1>1, <1>2, Zenon DEF SignInByCode
<1>4. guess' = [guess EXCEPT ![v] = r]
  BY <1>1, <1>2, Zenon DEF SignInByCode
<1>5. LogInv /\ CallsInv /\ gen \in Nat /\ nextSid \in Nat
  BY SessionFacts, Zenon
<1>6. s \in Nat /\ nextSid <= s /\ s # NoSid /\ s <= s /\ \A y \in Nat : y <= nextSid => y # s
  BY <1>1, <1>5 DEF NoSid
<1>7. x.gen \in Nat /\ x.gen <= gen
  <2>1. SignInGuess(guess[v])
    BY SessionFacts, Zenon DEF GuessesInv
  <2> QED BY <1>2, <1>3, <2>1, Zenon DEF SignInGuess
<1>8. r.pc = "clear" /\ r.pc # "right" /\ r.gen = x.gen /\ r.sid = s
  <2>1. GuessRecord(x)
    <3>1. x = Waiting \/ GuessRecord(x)
      BY <1>2, Zenon DEF MeterInv, MeterTyped
    <3> QED BY <1>3, <3>1 DEF Waiting
  <2> QED BY <2>1 DEF GuessRecord
<1> HIDE DEF r
<1>9. \A e \in audit : e.sid # s
  <2>1. \A e \in EventRow : e.sid \in Nat
    BY DEF EventRow
  <2> QED BY <1>5, <1>6, <2>1, Zenon DEF LogInv, LogTyped
<1>10. s \notin Range(open)
  <2>1. open \in Seq(Nat)
    BY <1>5, Zenon DEF LogInv, LogTyped
  <2>2. Range(open) \subseteq Nat
    BY <2>1 DEF Range
  <2> QED BY <1>5, <1>6, <2>2, Zenon DEF LogInv
<1>11. LogInv' /\ Keeps({s}) /\ Vouched(x.gen, s)'
  BY <1>3, <1>5, <1>6, <1>7, <1>9, <1>10, OpenLog, Zenon
<1>12. CallsInv'
  <2>1. \A c \in flight : c.kind = "login" => c.sid \in Nat /\ c.sid <= nextSid
    BY SessionFacts, Zenon DEF CallsInv, Unused
  <2>2. Outside(flight', {s})
    BY <1>3, <1>6, <2>1, Zenon DEF Outside
  <2>3. flight' \subseteq flight
    BY <1>3
  <2> QED BY <1>11, <2>2, <2>3, CallsGo, Zenon
<1>13. TokensInv'
  BY <1>3, <1>11, HoldersStay, Zenon
<1>14. GuessesInv'
  <2>1. Differs(guess, guess', v) /\ guess'[v] = r
    <3>1. DOMAIN guess = Verifiers
      BY DEF MeterInv, MeterTyped
    <3> QED BY <1>4, <3>1 DEF Differs
  <2>2. SignInGuess(r)'
    BY <1>6, <1>7, <1>8, <1>11, Zenon DEF SignInGuess
  <2> QED BY <1>11, <2>1, <2>2, GuessMovesOn, Zenon
<1> QED BY <1>11, <1>12, <1>13, <1>14, Zenon DEF SessionInv

LEMMA ClearAnswers ==
    ASSUME SessionInv, MeterInv, NEW v \in Verifiers, ClearOnSuccess(v) PROVE SessionInv'
<1>1. PICK x : x = guess[v]
  OBVIOUS
<1>2. /\ x.pc = "clear" /\ tokens' = tokens \cup {[gen |-> x.gen, sid |-> x.sid]}
      /\ UNCHANGED <<capped, gen, open, nextSid, flight, audit>>
  BY <1>1, Zenon DEF ClearOnSuccess
<1>3. guess' = [guess EXCEPT ![v] = Waiting]
  BY Zenon DEF ClearOnSuccess
<1>4. x.gen \in Nat /\ x.sid \in Nat /\ Vouched(x.gen, x.sid)
  <2>1. SignInGuess(guess[v])
    BY SessionFacts, Zenon DEF GuessesInv
  <2> QED BY <1>1, <1>2, <2>1, Zenon DEF SignInGuess
<1>5. LogInv' /\ Keeps({})
  BY <1>2, QuietKeeps, Zenon
<1>6. flight' \subseteq flight
  BY <1>2
<1>7. CallsInv'
  BY <1>5, <1>6, NothingOutside, CallsGo, Zenon
<1>8. TokensInv'
  BY <1>2, <1>4, <1>5, TokenSigned, Zenon
<1>9. GuessesInv'
  <2>1. Differs(guess, guess', v) /\ guess'[v] = Waiting
    <3>1. DOMAIN guess = Verifiers
      BY DEF MeterInv, MeterTyped
    <3> QED BY <1>3, <3>1 DEF Differs
  <2>2. Waiting.pc # "right" /\ Waiting.pc # "clear"
    BY DEF Waiting
  <2>3. SignInGuess(Waiting)'
    BY <2>2, Zenon DEF SignInGuess
  <2> QED BY <1>5, <2>1, <2>3, GuessMovesOn, Zenon
<1> QED BY <1>5, <1>7, <1>8, <1>9, Zenon DEF SessionInv

LEMMA SessionStep ==
    MeterInv /\ SessionInv /\ [AccountNext]_<<sessionVars, codeVars>> => SessionInv'
<1> SUFFICES ASSUME MeterInv, SessionInv, [AccountNext]_<<sessionVars, codeVars>> PROVE SessionInv'
  OBVIOUS
<1>1. CASE UNCHANGED sessionVars /\ guess' = guess
  <2>1. UNCHANGED <<capped, gen, open, audit, nextSid, tokens, flight>>
    BY <1>1 DEF sessionVars
  <2> QED BY <1>1, <2>1, QuietAnswers, Zenon
<1>2. CASE UNCHANGED <<sessionVars, codeVars>>
  BY <1>1, <1>2 DEF codeVars
<1>3. CASE SessionsNext /\ UNCHANGED codeVars
  <2>1. guess' = guess
    BY <1>3 DEF codeVars
  <2> QED BY <1>3, <2>1, SessionsStep, Zenon
<1>4. CASE capped /\ CodesNext
  <2>1. CASE UNCHANGED sessionVars /\ (RegisterCodeRequest \/ RequestDies \/ ChallengeRequired \/ CreateCode \/ LapseNext)
    <3>1. guess' = guess
      BY <2>1, Zenon DEF RegisterCodeRequest, RequestDies, ChallengeRequired, CreateCode, LapseNext
    <3> QED BY <1>1, <2>1, <3>1
  <2>2. ASSUME NEW v \in Verifiers, UNCHANGED sessionVars,
               \/ AssertNotBlocked(v) \/ VerifyCode(v) \/ CountAttempt(v) \/ RecordVerificationFailure(v)
               \/ SetBlock(v) \/ VerifierDies(v)
        PROVE  SessionInv'
    BY <2>2, VerifierStep, Zenon
  <2>3. ASSUME NEW v \in Verifiers, SignInByCode(v) \/ ClearOnSuccess(v) PROVE SessionInv'
    BY <1>4, <2>3, SignInAnswers, ClearAnswers, Zenon
  <2> QED BY <1>4, <2>1, <2>2, <2>3, Zenon DEF CodesNext
<1> QED BY <1>2, <1>3, <1>4, Zenon DEF AccountNext

LEMMA SessionInitially == SessionsInit /\ CodesInit => SessionInv
<1> SUFFICES ASSUME SessionsInit, CodesInit PROVE SessionInv
  OBVIOUS
<1>1. /\ capped \in BOOLEAN /\ gen = 0 /\ open = <<>> /\ nextSid = 0 /\ tokens = {} /\ flight = {} /\ audit = {}
      /\ guess = [v \in Verifiers |-> Waiting]
  BY Zenon DEF SessionsInit, CodesInit
<1>2. open \in Seq(Nat) /\ Distinct(open) /\ Range(open) = {}
  BY <1>1 DEF Distinct, Range
<1>3. LogInv
  BY <1>1, <1>2 DEF LogInv, LogTyped
<1>4. CallsInv /\ TokensInv
  BY <1>1 DEF CallsInv, TokensInv
<1>5. GuessesInv
  BY <1>1 DEF GuessesInv, SignInGuess, Waiting
<1> QED BY <1>3, <1>4, <1>5 DEF SessionInv

(***************************************************************************)
(* For any number of sign-ins by password and by code, refreshes, resets,  *)
(* sign-outs and deactivations in flight at once, and any cap: the token   *)
(* checks of every request accept a token's session exactly when the       *)
(* session log shows it signed in and not ended.                           *)
(***************************************************************************)
THEOREM LogTellsWhoIsIn == AccountSpec => []AuditTellsWhoIsIn
<1>1. SessionsInit /\ CodesInit => MeterInv /\ SessionInv
  BY MeterInitially, SessionInitially
<1>2. MeterInv /\ SessionInv /\ [AccountNext]_<<sessionVars, codeVars>> => (MeterInv /\ SessionInv)'
  BY MeterStep, SessionStep
<1>3. AccountSpec => [](MeterInv /\ SessionInv)
  BY <1>1, <1>2, PTL DEF AccountSpec
<1> QED BY <1>3, LogAnswers, PTL
=============================================================================
