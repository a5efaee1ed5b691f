---------------------------- MODULE MarketProofs ----------------------------
(***************************************************************************)
(* Theorems about the market: FuelExchange for any companies, offers and   *)
(* prices, any number of calls under way and any requests left to migrate; *)
(* Announcements for any companies, administrators and workers, however    *)
(* often the queue hands the job out; PricedHaul for any companies, rates, *)
(* depots and routing calls.                                               *)
(***************************************************************************)
EXTENDS FuelExchange, Announcements, PricedHaul, WellFoundedInduction, FiniteSetTheorems, TLAPS

-----------------------------------------------------------------------------
(* FuelExchange.                                                             *)

\* The documents an award depends on keep their types.
Documents ==
    /\ offer \in [Offers -> ExchangeOffer \cup {NoOffer}]
    /\ answers \in [Offers -> [Firms -> ExchangeProposal \cup {NoAnswer}]]
    /\ calls \subseteq Calls
    /\ request \in [Offers -> ExchangeRequest \cup {NoRequest}]
    /\ script \subseteq Offers

(***************************************************************************)
(* Why an award commits on a price.  An answer that was not a decline is   *)
(* priced until some award settles its offer; a call to award it carries   *)
(* that price, and by the time the price may have gone the offer is no     *)
(* longer OPEN.                                                            *)
(***************************************************************************)
AnswersArePriced ==
    \A o \in Offers, f \in Firms :
        /\ answers[o][f].outcome \in {"PROPOSED", "AWARDED"} => answers[o][f].price \in Prices
        /\ answers[o][f].outcome = "NOT_SELECTED" => offer[o].state = "AWARDED"

AwardCallIsPriced ==
    \A c \in calls : c.kind = "award" =>
        /\ answers[c.offer][c.firm] # NoAnswer
        /\ answers[c.offer][c.firm].price = c.price
        /\ offer[c.offer].state = "OPEN" => c.price \in Prices

CallsAreOfOffers == \A c \in calls : offer[c.offer] # NoOffer

(***************************************************************************)
(* The migration.  It converts one request at a time, and nothing is       *)
(* answered before the market is live.                                     *)
(***************************************************************************)
UnofferedIsUnanswered ==
    \A o \in Offers : offer[o] = NoOffer \/ o \in script => \A f \in Firms : answers[o][f] = NoAnswer

ScriptMidway ==
    /\ \A o, p \in script : o = p
    /\ \A o \in script :
          /\ request[o].state \in {"ACCEPTED", "DECLINED"}
          /\ request[o].state = "ACCEPTED" =>
                /\ offer[o].state = "AWARDED"
                /\ offer[o].winner = request[o].recipient /\ offer[o].agreed = request[o].price
          /\ request[o].state = "DECLINED" => offer[o].state = "CLOSED_NO_AWARD"

ExchangeInv ==
    /\ Documents /\ AnswersArePriced /\ AwardCallIsPriced /\ CallsAreOfOffers
    /\ UnofferedIsUnanswered /\ ScriptMidway /\ AwardIsSettled

\* An answer is a proposal or none, and one with an outcome is a proposal.
LEMMA AnswerShape ==
    ASSUME Documents, NEW o \in Offers, NEW f \in Firms
    PROVE  /\ answers[o][f] = NoAnswer \/ answers[o][f] \in ExchangeProposal
           /\ answers[o][f] = NoAnswer <=> answers[o][f].outcome = "none"
  BY DEF Documents, NoAnswer, ExchangeProposal, ProposalOutcome

\* A step that leaves the documents alone and at most drops calls, or adds one that notifies.
LEMMA QuietStep ==
    ASSUME ExchangeInv, UNCHANGED <<offer, answers, request, script>>,
           interrupted \subseteq interrupted', calls' \subseteq Calls,
           \A c \in calls' : c \in calls \/ (c.kind # "award" /\ offer[c.offer] # NoOffer)
    PROVE  ExchangeInv'
  BY DEF ExchangeInv, Documents, AnswersArePriced, AwardCallIsPriced, CallsAreOfOffers,
         UnofferedIsUnanswered, ScriptMidway, AwardIsSettled

\* The writes of the market: an answer is inserted, an award commits, an offer is raised or
\* withdrawn.
LEMMA CreateStep ==
    ASSUME ExchangeInv, NEW f \in Firms, NEW o \in Offers, Create(f, o)
    PROVE  ExchangeInv'
<1> DEFINE new == [state |-> "OPEN", raiser |-> f, parties |-> {f}, openToMarket |-> TRUE,
                   winner |-> NoFirm, agreed |-> Decline]
<1>1. offer' = [offer EXCEPT ![o] = new] /\ offer[o] = NoOffer
  BY DEF Create
<1>2. new \in ExchangeOffer /\ new # NoOffer /\ new.state = "OPEN"
  BY DEF ExchangeOffer, ExchangeOfferState, NoOffer
<1>3. UNCHANGED <<answers, calls, request, script, interrupted>>
  BY DEF Create
<1>4. \A g \in Firms : answers[o][g] = NoAnswer
  BY <1>1 DEF ExchangeInv, UnofferedIsUnanswered
<1>5. o \notin script
  BY <1>1 DEF ExchangeInv, ScriptMidway, NoOffer
<1>6. \A c \in calls : c.offer # o /\ c.offer \in Offers
  BY <1>1 DEF ExchangeInv, CallsAreOfOffers, Documents, Calls
<1> HIDE DEF new
<1>7. offer'[o] = new /\ \A p \in Offers : p # o => offer'[p] = offer[p]
  BY <1>1 DEF ExchangeInv, Documents
<1>8. Documents'
  BY <1>1, <1>2, <1>3 DEF ExchangeInv, Documents
<1>9. AnswersArePriced'
  BY <1>3, <1>4, <1>7 DEF ExchangeInv, AnswersArePriced, NoAnswer
<1>10. AwardCallIsPriced' /\ CallsAreOfOffers'
  BY <1>3, <1>6, <1>7 DEF ExchangeInv, AwardCallIsPriced, CallsAreOfOffers
<1>11. UnofferedIsUnanswered' /\ ScriptMidway'
  BY <1>3, <1>4, <1>5, <1>7 DEF ExchangeInv, UnofferedIsUnanswered, ScriptMidway, Documents
<1>12. AwardIsSettled'
  BY <1>2, <1>3, <1>4, <1>7 DEF ExchangeInv, AwardIsSettled, NoAnswer
<1> QED
  BY <1>8, <1>9, <1>10, <1>11, <1>12 DEF ExchangeInv

LEMMA WithdrawStep ==
    ASSUME ExchangeInv, Live, NEW o \in Offers, Withdraw(o)
    PROVE  ExchangeInv'
<1> DEFINE new == [offer[o] EXCEPT !.state = "WITHDRAWN"]
           call == Call("tellWithdrawal", o, offer[o].raiser, Decline)
<1>1. offer' = [offer EXCEPT ![o] = new] /\ offer[o].state = "OPEN" /\ offer[o] \in ExchangeOffer
  BY DEF Withdraw, ExchangeInv, Documents
<1>2. new \in ExchangeOffer /\ new # NoOffer /\ new.state = "WITHDRAWN"
  BY <1>1 DEF ExchangeOffer, ExchangeOfferState, NoOffer
<1>3. UNCHANGED <<answers, request, script, interrupted>> /\ calls' = calls \cup {call}
  BY DEF Withdraw, Waits
<1>4. call \in Calls /\ call.kind # "award" /\ call.offer = o
  BY <1>1 DEF Call, Calls, ExchangeOffer
<1>5. script = {}
  BY DEF Live
<1> HIDE DEF new, call
<1>6. offer'[o] = new /\ \A p \in Offers : p # o => offer'[p] = offer[p]
  BY <1>1 DEF ExchangeInv, Documents
<1>7. Documents'
  BY <1>1, <1>2, <1>3, <1>4 DEF ExchangeInv, Documents
<1>8. AnswersArePriced'
  BY <1>1, <1>3, <1>6 DEF ExchangeInv, AnswersArePriced
<1>9. \A c \in calls : c.offer \in Offers
  BY DEF ExchangeInv, Documents, Calls
<1>10. AwardCallIsPriced' /\ CallsAreOfOffers'
  BY <1>2, <1>3, <1>4, <1>6, <1>9 DEF ExchangeInv, AwardCallIsPriced, CallsAreOfOffers
<1>11. UnofferedIsUnanswered' /\ ScriptMidway'
  BY <1>1, <1>2, <1>3, <1>5, <1>6 DEF ExchangeInv, UnofferedIsUnanswered, ScriptMidway
<1>12. AwardIsSettled'
  BY <1>1, <1>2, <1>3, <1>6 DEF ExchangeInv, AwardIsSettled
<1> QED
  BY <1>7, <1>8, <1>10, <1>11, <1>12 DEF ExchangeInv

LEMMA ProposeInsertStep ==
    ASSUME ExchangeInv, Live, NEW c \in calls, ProposeInsert(c)
    PROVE  ExchangeInv'
<1> DEFINE o == c.offer
           f == c.firm
           new == [outcome |-> IF c.price = Decline THEN "DECLINED" ELSE "PROPOSED", price |-> c.price]
<1>1. c \in Calls /\ o \in Offers /\ f \in Firms /\ c.price \in Prices \cup {Decline}
  BY DEF ExchangeInv, Documents, Calls
<1>2. CASE answers[o][f] # NoAnswer
  BY <1>2, QuietStep DEF ProposeInsert, ExchangeInv, Documents
<1>3. CASE answers[o][f] = NoAnswer
  <2>1. answers' = [answers EXCEPT ![o] = [answers[o] EXCEPT ![f] = new]]
    BY <1>3 DEF ProposeInsert
  <2>2. UNCHANGED <<offer, request, script, interrupted>> /\ calls' = calls \ {c} /\ script = {}
    BY DEF ProposeInsert, Live
  <2>3. /\ new \in ExchangeProposal /\ new # NoAnswer /\ new.outcome \in {"DECLINED", "PROPOSED"}
        /\ new.outcome = "PROPOSED" => new.price \in Prices
    BY <1>1 DEF ExchangeProposal, ProposalOutcome, NoAnswer
  <2>4. offer[o] # NoOffer
    BY DEF ExchangeInv, CallsAreOfOffers
  <2> HIDE DEF o, f, new
  <2>5. /\ answers'[o][f] = new
        /\ \A p \in Offers, g \in Firms : p # o \/ g # f => answers'[p][g] = answers[p][g]
    BY <1>1, <2>1 DEF ExchangeInv, Documents
  <2>6. answers[o][f].outcome = "none"
    BY <1>3 DEF NoAnswer
  <2>7. Documents'
    BY <1>1, <2>1, <2>2, <2>3 DEF ExchangeInv, Documents
  <2>8. AnswersArePriced'
    BY <1>1, <2>2, <2>3, <2>5 DEF ExchangeInv, AnswersArePriced
  <2>9. \A d \in calls : d.offer \in Offers /\ d.firm \in Firms
    BY DEF ExchangeInv, Documents, Calls
  <2>10. AwardCallIsPriced' /\ CallsAreOfOffers'
    BY <1>3, <2>2, <2>5, <2>9 DEF ExchangeInv, AwardCallIsPriced, CallsAreOfOffers
  <2>11. UnofferedIsUnanswered' /\ ScriptMidway'
    BY <2>2, <2>4, <2>5 DEF ExchangeInv, UnofferedIsUnanswered, ScriptMidway
  <2>12. ASSUME NEW p \in Offers \ (script \cup interrupted)
         PROVE  /\ \A g \in Firms : answers'[p][g].outcome = "AWARDED" <=> answers[p][g].outcome = "AWARDED"
                /\ \A g \in Firms : answers[p][g].outcome = "AWARDED" => answers'[p][g] = answers[p][g]
    BY <2>3, <2>5, <2>6
  <2>13. AwardIsSettled'
    <3> SUFFICES ASSUME NEW p \in Offers \ (script \cup interrupted)
                 PROVE  LET won == {g \in Firms : answers'[p][g].outcome = "AWARDED"} IN
                        IF offer[p].state = "AWARDED"
                        THEN /\ won = {offer[p].winner}
                             /\ offer[p].agreed = answers'[p][offer[p].winner].price
                             /\ offer[p].agreed \in Prices
                        ELSE won = {}
      BY <2>2 DEF AwardIsSettled
    <3>1. {g \in Firms : answers'[p][g].outcome = "AWARDED"} = {g \in Firms : answers[p][g].outcome = "AWARDED"}
      BY <2>12
    <3> QED
      BY <2>12, <3>1 DEF ExchangeInv, AwardIsSettled
  <2> QED
    BY <2>7, <2>8, <2>10, <2>11, <2>13 DEF ExchangeInv
<1> QED BY <1>2, <1>3

LEMMA AwardCommitStep ==
    ASSUME ExchangeInv, Live, NEW c \in calls, AwardCommit(c)
    PROVE  ExchangeInv'
<1> DEFINE o == c.offer
           f == c.firm
           new == [offer[o] EXCEPT !.state = "AWARDED", !.winner = f, !.agreed = c.price]
           settled(g) == CASE g = f -> [answers[o][g] EXCEPT !.outcome = "AWARDED"]
                           [] g # f /\ answers[o][g] # NoAnswer ->
                                 [answers[o][g] EXCEPT !.outcome = "NOT_SELECTED"]
                           [] OTHER -> answers[o][g]
           call == Call("tellAward", o, f, c.price)
<1>1. c \in Calls /\ o \in Offers /\ f \in Firms /\ c.price \in Prices \cup {Decline} /\ c.kind = "award"
  BY DEF ExchangeInv, Documents, Calls, AwardCommit
<1>2. CASE offer[o].state # "OPEN"
  BY <1>2, QuietStep DEF AwardCommit, ExchangeInv, Documents
<1>3. CASE offer[o].state = "OPEN"
  <2>1. /\ offer' = [offer EXCEPT ![o] = new]
        /\ answers' = [answers EXCEPT ![o] = [g \in Firms |-> settled(g)]]
        /\ calls' = (calls \ {c}) \cup {call}
        /\ UNCHANGED <<request, script, interrupted>> /\ script = {}
    <3>1. offer' = [offer EXCEPT ![o] = new]
      BY <1>1, <1>3 DEF AwardCommit, ExchangeInv, Documents
    <3>2. answers' = [answers EXCEPT ![o] = [g \in Firms |-> settled(g)]]
      BY <1>1, <1>3 DEF AwardCommit, ExchangeInv, Documents
    <3>3. calls' = (calls \ {c}) \cup {call} /\ UNCHANGED <<request, script, interrupted>> /\ script = {}
      BY <1>3 DEF AwardCommit, Live
    <3> QED BY <3>1, <3>2, <3>3
  <2>2. offer[o] \in ExchangeOffer
    BY <1>1, <1>3 DEF ExchangeInv, Documents, NoOffer
  <2>3. new \in ExchangeOffer /\ new # NoOffer /\ new.state = "AWARDED" /\ new.winner = f /\ new.agreed = c.price
    BY <1>1, <2>2 DEF ExchangeOffer, ExchangeOfferState, NoOffer
  <2>4. /\ answers[o][f] \in ExchangeProposal /\ answers[o][f].price = c.price /\ c.price \in Prices
        /\ answers[o][f] # NoAnswer
    BY <1>1, <1>3, AnswerShape DEF ExchangeInv, AwardCallIsPriced
  <2>5. settled(f) \in ExchangeProposal /\ settled(f).outcome = "AWARDED" /\ settled(f).price = c.price
    BY <2>4 DEF ExchangeProposal, ProposalOutcome
  <2>6. \A g \in Firms : g # f =>
            \/ settled(g) = NoAnswer /\ answers[o][g] = NoAnswer
            \/ /\ settled(g) \in ExchangeProposal /\ settled(g).outcome = "NOT_SELECTED"
               /\ settled(g).price = answers[o][g].price /\ answers[o][g] # NoAnswer
    <3> SUFFICES ASSUME NEW g \in Firms, g # f
                 PROVE  \/ settled(g) = NoAnswer /\ answers[o][g] = NoAnswer
                        \/ /\ settled(g) \in ExchangeProposal /\ settled(g).outcome = "NOT_SELECTED"
                           /\ settled(g).price = answers[o][g].price /\ answers[o][g] # NoAnswer
      OBVIOUS
    <3>1. CASE answers[o][g] = NoAnswer
      BY <3>1
    <3>2. CASE answers[o][g] # NoAnswer
      <4>1. answers[o][g] \in ExchangeProposal
        BY <1>1, <3>2, AnswerShape DEF ExchangeInv
      <4> QED BY <3>2, <4>1 DEF ExchangeProposal, ProposalOutcome
    <3> QED BY <3>1, <3>2
  <2>7. call \in Calls /\ call.kind # "award" /\ call.offer = o
    BY <1>1 DEF Call, Calls
  <2> HIDE DEF o, f, new, settled, call
  <2>8. /\ offer'[o] = new /\ \A p \in Offers : p # o => offer'[p] = offer[p] /\ answers'[p] = answers[p]
        /\ \A g \in Firms : answers'[o][g] = settled(g)
    BY <1>1, <2>1 DEF ExchangeInv, Documents
  <2>9. Documents'
    <3>1. [g \in Firms |-> settled(g)] \in [Firms -> ExchangeProposal \cup {NoAnswer}]
      BY <2>5, <2>6
    <3> QED BY <2>1, <2>3, <2>7, <3>1 DEF ExchangeInv, Documents
  <2>10. AnswersArePriced'
    <3>1. ASSUME NEW g \in Firms
          PROVE  answers'[o][g].outcome \in {"PROPOSED", "AWARDED"} => answers'[o][g].price \in Prices
      BY <2>4, <2>5, <2>6, <2>8 DEF NoAnswer
    <3> QED BY <2>3, <2>8, <3>1 DEF ExchangeInv, AnswersArePriced
  <2>11. \A d \in calls : d.offer \in Offers /\ d.firm \in Firms
    BY DEF ExchangeInv, Documents, Calls
  <2>12. CallsAreOfOffers'
    BY <2>1, <2>3, <2>7, <2>8, <2>11 DEF ExchangeInv, CallsAreOfOffers
  <2>13. AwardCallIsPriced'
    <3> SUFFICES ASSUME NEW d \in calls, d.kind = "award"
                 PROVE  /\ answers'[d.offer][d.firm] # NoAnswer
                        /\ answers'[d.offer][d.firm].price = d.price
                        /\ offer'[d.offer].state = "OPEN" => d.price \in Prices
      BY <2>1, <2>7 DEF AwardCallIsPriced
    <3>1. CASE d.offer # o
      BY <2>8, <2>11, <3>1 DEF ExchangeInv, AwardCallIsPriced
    <3>2. CASE d.offer = o
      <4>1. answers[o][d.firm] # NoAnswer /\ answers[o][d.firm].price = d.price
        BY <3>2 DEF ExchangeInv, AwardCallIsPriced
      <4>2. answers'[o][d.firm] # NoAnswer /\ answers'[o][d.firm].price = d.price
        BY <2>4, <2>5, <2>6, <2>8, <2>11, <4>1 DEF NoAnswer, ExchangeProposal, ProposalOutcome
      <4> QED BY <2>3, <2>8, <3>2, <4>2
    <3> QED BY <3>1, <3>2
  <2>14. UnofferedIsUnanswered' /\ ScriptMidway'
    BY <2>1, <2>3, <2>8 DEF ExchangeInv, UnofferedIsUnanswered, ScriptMidway
  <2>15. AwardIsSettled'
    <3>1. {g \in Firms : answers'[o][g].outcome = "AWARDED"} = {f}
      BY <1>1, <2>5, <2>6, <2>8 DEF NoAnswer
    <3>2. offer'[o].agreed = answers'[o][f].price /\ offer'[o].winner = f /\ offer'[o].agreed \in Prices
      BY <1>1, <2>3, <2>4, <2>5, <2>8
    <3> SUFFICES ASSUME NEW p \in Offers \ (script \cup interrupted)
                 PROVE  LET won == {g \in Firms : answers'[p][g].outcome = "AWARDED"} IN
                        IF offer'[p].state = "AWARDED"
                        THEN /\ won = {offer'[p].winner}
                             /\ offer'[p].agreed = answers'[p][offer'[p].winner].price
                             /\ offer'[p].agreed \in Prices
                        ELSE won = {}
      BY <2>1 DEF AwardIsSettled
    <3>3. CASE p = o
      BY <2>3, <2>8, <3>1, <3>2, <3>3
    <3>4. CASE p # o
      BY <2>8, <3>4 DEF ExchangeInv, AwardIsSettled
    <3> QED BY <3>3, <3>4
  <2> QED
    BY <2>9, <2>10, <2>12, <2>13, <2>14, <2>15 DEF ExchangeInv
<1> QED BY <1>2, <1>3

\* The writes of the migration.
LEMMA MigrateOfferStep ==
    ASSUME ExchangeInv, NEW o \in Offers, MigrateOffer(o)
    PROVE  ExchangeInv'
<1> DEFINE r == request[o]
           new == [state |-> MapState(r.state), raiser |-> r.raiser, parties |-> {r.raiser, r.recipient},
                   openToMarket |-> FALSE,
                   winner |-> IF r.state = "ACCEPTED" THEN r.recipient ELSE NoFirm,
                   agreed |-> IF r.state = "ACCEPTED" THEN r.price ELSE Decline]
<1>1. r \in ExchangeRequest
  BY DEF MigrateOffer, ExchangeInv, Documents
<1>2. /\ offer' = [offer EXCEPT ![o] = new] /\ offer[o] = NoOffer /\ script = {}
      /\ script' = IF r.state \in {"ACCEPTED", "DECLINED"} THEN {o} ELSE {}
      /\ UNCHANGED <<answers, calls, request, interrupted>>
  BY DEF MigrateOffer
<1>3. /\ new \in ExchangeOffer /\ new # NoOffer
      /\ r.state = "ACCEPTED" => new.state = "AWARDED" /\ new.winner = r.recipient /\ new.agreed = r.price
      /\ r.state = "DECLINED" => new.state = "CLOSED_NO_AWARD"
      /\ r.state \notin {"ACCEPTED", "DECLINED"} => new.state \in {"OPEN", "WITHDRAWN"}
  BY <1>1 DEF ExchangeRequest, ExchangeRequestState, MapState, ExchangeOffer, ExchangeOfferState, NoOffer
<1>4. \A g \in Firms : answers[o][g] = NoAnswer
  BY <1>2 DEF ExchangeInv, UnofferedIsUnanswered
<1>5. \A c \in calls : c.offer # o /\ c.offer \in Offers
  BY <1>2 DEF ExchangeInv, CallsAreOfOffers, Documents, Calls
<1> HIDE DEF new
<1>6. offer'[o] = new /\ \A p \in Offers : p # o => offer'[p] = offer[p]
  BY <1>2 DEF ExchangeInv, Documents
<1>7. Documents'
  BY <1>2, <1>3 DEF ExchangeInv, Documents
<1>8. AnswersArePriced'
  BY <1>2, <1>4, <1>6 DEF ExchangeInv, AnswersArePriced, NoAnswer
<1>9. AwardCallIsPriced' /\ CallsAreOfOffers'
  BY <1>2, <1>5, <1>6 DEF ExchangeInv, AwardCallIsPriced, CallsAreOfOffers
<1>10. UnofferedIsUnanswered'
  BY <1>2, <1>4, <1>6 DEF ExchangeInv, UnofferedIsUnanswered
<1>11. ScriptMidway'
  BY <1>2, <1>3, <1>6 DEF ScriptMidway
<1>12. AwardIsSettled'
  <2> SUFFICES ASSUME NEW p \in Offers \ (script' \cup interrupted)
               PROVE  LET won == {g \in Firms : answers[p][g].outcome = "AWARDED"} IN
                      IF offer'[p].state = "AWARDED"
                      THEN /\ won = {offer'[p].winner}
                           /\ offer'[p].agreed = answers[p][offer'[p].winner].price
                           /\ offer'[p].agreed \in Prices
                      ELSE won = {}
    BY <1>2 DEF AwardIsSettled
  <2>1. CASE p # o
    BY <1>2, <1>6, <2>1 DEF ExchangeInv, AwardIsSettled
  <2>2. CASE p = o
    <3>1. offer'[p].state # "AWARDED"
      BY <1>2, <1>3, <1>6, <2>2
    <3>2. {g \in Firms : answers[p][g].outcome = "AWARDED"} = {}
      BY <1>4, <2>2 DEF NoAnswer
    <3> QED BY <3>1, <3>2
  <2> QED BY <2>1, <2>2
<1> QED
  BY <1>7, <1>8, <1>9, <1>10, <1>11, <1>12 DEF ExchangeInv

LEMMA MigrateProposalStep ==
    ASSUME ExchangeInv, NEW o \in Offers, MigrateProposal(o)
    PROVE  ExchangeInv'
<1> DEFINE r == request[o]
           f == r.recipient
           new == IF r.state = "ACCEPTED" THEN [outcome |-> "AWARDED", price |-> r.price]
                  ELSE [outcome |-> "DECLINED", price |-> Decline]
<1>1. /\ r \in ExchangeRequest /\ f \in Firms /\ r.price \in Prices
      /\ r.state = "ACCEPTED" => offer[o].state = "AWARDED" /\ offer[o].winner = f /\ offer[o].agreed = r.price
      /\ r.state # "ACCEPTED" => offer[o].state = "CLOSED_NO_AWARD"
  <2>1. r.state \in {"ACCEPTED", "DECLINED"}
    BY DEF MigrateProposal, ExchangeInv, ScriptMidway
  <2>2. r \in ExchangeRequest
    BY <2>1 DEF ExchangeInv, Documents, NoRequest
  <2> QED BY <2>1, <2>2 DEF MigrateProposal, ExchangeInv, ScriptMidway, ExchangeRequest
<1>2. /\ answers' = [answers EXCEPT ![o] = [answers[o] EXCEPT ![f] = new]]
      /\ script' = {} /\ script = {o} /\ UNCHANGED <<offer, calls, request, interrupted>>
  BY DEF MigrateProposal, ExchangeInv, ScriptMidway
<1>3. \A g \in Firms : answers[o][g] = NoAnswer
  BY <1>2 DEF ExchangeInv, UnofferedIsUnanswered
<1>4. offer[o] # NoOffer
  BY <1>1 DEF NoOffer
<1>5. /\ new \in ExchangeProposal /\ new # NoAnswer
      /\ r.state = "ACCEPTED" => new.outcome = "AWARDED" /\ new.price = r.price
      /\ r.state # "ACCEPTED" => new.outcome = "DECLINED"
  BY <1>1 DEF ExchangeProposal, ProposalOutcome, NoAnswer
<1> HIDE DEF f, new, r
<1>6. /\ answers'[o][f] = new /\ \A g \in Firms : g # f => answers'[o][g] = NoAnswer
      /\ \A p \in Offers : p # o => answers'[p] = answers[p]
  BY <1>1, <1>2, <1>3 DEF ExchangeInv, Documents
<1>7. Documents'
  BY <1>1, <1>2, <1>5 DEF ExchangeInv, Documents
<1>8. AnswersArePriced'
  <2>1. \A g \in Firms : /\ answers'[o][g].outcome \in {"PROPOSED", "AWARDED"} => answers'[o][g].price \in Prices
                         /\ answers'[o][g].outcome # "NOT_SELECTED"
    BY <1>1, <1>5, <1>6 DEF NoAnswer
  <2> QED BY <1>2, <1>6, <2>1 DEF ExchangeInv, AnswersArePriced
<1>9. AwardCallIsPriced' /\ CallsAreOfOffers'
  <2>1. \A c \in calls : c.offer \in Offers /\ c.firm \in Firms
    BY DEF ExchangeInv, Documents, Calls
  <2>2. \A c \in calls : c.kind = "award" => c.offer # o
    BY <1>3, <2>1 DEF ExchangeInv, AwardCallIsPriced
  <2> QED BY <1>2, <1>6, <2>1, <2>2 DEF ExchangeInv, AwardCallIsPriced, CallsAreOfOffers
<1>10. UnofferedIsUnanswered' /\ ScriptMidway'
  BY <1>2, <1>4, <1>6 DEF ExchangeInv, UnofferedIsUnanswered, ScriptMidway
<1>11. AwardIsSettled'
  <2> SUFFICES ASSUME NEW p \in Offers \ interrupted
               PROVE  LET won == {g \in Firms : answers'[p][g].outcome = "AWARDED"} IN
                      IF offer[p].state = "AWARDED"
                      THEN /\ won = {offer[p].winner}
                           /\ offer[p].agreed = answers'[p][offer[p].winner].price
                           /\ offer[p].agreed \in Prices
                      ELSE won = {}
    BY <1>2 DEF AwardIsSettled
  <2>1. CASE p # o
    BY <1>2, <1>6, <2>1 DEF ExchangeInv, AwardIsSettled
  <2>2. CASE p = o /\ r.state = "ACCEPTED"
    <3>1. {g \in Firms : answers'[o][g].outcome = "AWARDED"} = {f}
      BY <1>1, <1>5, <1>6, <2>2 DEF NoAnswer
    <3> QED BY <1>1, <1>5, <1>6, <2>2, <3>1
  <2>3. CASE p = o /\ r.state # "ACCEPTED"
    <3>1. {g \in Firms : answers'[o][g].outcome = "AWARDED"} = {}
      BY <1>1, <1>5, <1>6, <2>3 DEF NoAnswer
    <3> QED BY <1>1, <2>3, <3>1
  <2> QED BY <2>1, <2>2, <2>3
<1> QED
  BY <1>7, <1>8, <1>9, <1>10, <1>11 DEF ExchangeInv

LEMMA MigrationDiesStep ==
    ASSUME ExchangeInv, NEW o \in Offers, MigrationDies(o)
    PROVE  ExchangeInv'
  BY DEF MigrationDies, ExchangeInv, Documents, AnswersArePriced, AwardCallIsPriced, CallsAreOfOffers,
         UnofferedIsUnanswered, ScriptMidway, AwardIsSettled

\* A call to award carries the price of the answer it names.
LEMMA AwardLoadStep ==
    ASSUME ExchangeInv, NEW o \in Offers, NEW g \in Firms, Award(o, g)
    PROVE  ExchangeInv'
<1> DEFINE call == Call("award", o, g, answers[o][g].price)
<1>1. /\ calls' = calls \cup {call} /\ UNCHANGED <<offer, answers, request, script, interrupted>>
      /\ offer[o] # NoOffer /\ answers[o][g] # NoAnswer /\ answers[o][g].outcome # "DECLINED"
  BY DEF Award, Waits
<1>2. answers[o][g] \in ExchangeProposal
  BY <1>1, AnswerShape DEF ExchangeInv
<1>3. /\ call \in Calls /\ call.kind = "award" /\ call.offer = o /\ call.firm = g
      /\ call.price = answers[o][g].price
  BY <1>2 DEF Call, Calls, ExchangeProposal
<1>4. offer[o].state = "OPEN" => answers[o][g].price \in Prices
  BY <1>1, <1>2 DEF ExchangeInv, AnswersArePriced, ExchangeProposal, ProposalOutcome
<1> HIDE DEF call
<1>5. Documents' /\ CallsAreOfOffers' /\ AwardCallIsPriced'
  BY <1>1, <1>3, <1>4 DEF ExchangeInv, Documents, CallsAreOfOffers, AwardCallIsPriced
<1> QED
  BY <1>1, <1>5 DEF ExchangeInv, AnswersArePriced, UnofferedIsUnanswered, ScriptMidway, AwardIsSettled

LEMMA ProposeLoadStep ==
    ASSUME ExchangeInv, NEW f \in Firms, NEW o \in Offers, NEW p \in Prices \cup {Decline}, Propose(f, o, p)
    PROVE  ExchangeInv'
<1> DEFINE call == Call("propose", o, f, p)
<1>1. /\ calls' = calls \cup {call} /\ UNCHANGED <<offer, answers, request, script, interrupted>>
      /\ offer[o] # NoOffer
  BY DEF Propose, Waits, MayAnswer, Reads
<1>2. call \in Calls /\ call.kind # "award" /\ call.offer = o
  BY DEF Call, Calls
<1> HIDE DEF call
<1> QED
  BY <1>1, <1>2, QuietStep DEF ExchangeInv, Documents

\* Every action keeps the exchange invariant.
LEMMA ExchangeStep ==
    ASSUME ExchangeInv, [ExchangeNext]_exchangeVars
    PROVE  ExchangeInv'
<1>1. CASE UNCHANGED exchangeVars
  BY <1>1, QuietStep DEF exchangeVars, ExchangeInv, Documents
<1>2. ASSUME NEW f \in Firms, SetFirmStatus(f)
      PROVE  ExchangeInv'
  BY <1>2, QuietStep DEF SetFirmStatus, ExchangeInv, Documents
<1>3. ASSUME NEW c \in calls, NotifyAward(c) \/ NotifyWithdrawal(c)
      PROVE  ExchangeInv'
  BY <1>3, QuietStep DEF NotifyAward, NotifyWithdrawal, ExchangeInv, Documents
<1>4. CASE Live /\ MarketNext
  BY <1>2, <1>3, <1>4, CreateStep, WithdrawStep, ProposeInsertStep, AwardCommitStep, AwardLoadStep,
     ProposeLoadStep DEF MarketNext
<1>5. CASE MigrationNext
  BY <1>5, MigrateOfferStep, MigrateProposalStep, MigrationDiesStep DEF MigrationNext
<1> QED
  BY <1>1, <1>4, <1>5 DEF ExchangeNext

LEMMA ExchangeInvariant == ExchangeSpec => []ExchangeInv
<1>1. ExchangeInit /\ request \in [Offers -> ExchangeRequest \cup {NoRequest}] => ExchangeInv
  BY DEF ExchangeInit, ExchangeInv, Documents, AnswersArePriced, AwardCallIsPriced, CallsAreOfOffers,
         UnofferedIsUnanswered, ScriptMidway, AwardIsSettled, NoOffer, NoAnswer
<1> QED
  BY <1>1, ExchangeStep, PTL DEF ExchangeSpec

\* An offer is awarded exactly when one proposal is, to the company and at the price the offer
\* froze, however answers, awards, withdrawals and the migration fall.
THEOREM AwardsAreSettled == ExchangeSpec => []AwardIsSettled
  BY ExchangeInvariant, PTL DEF ExchangeInv

\* The two filters agree: what a company's summary counts as awaiting its answer takes a
\* decline from it, and an unanswered offer that would take its price is counted.
THEOREM AwaitedOffersAreAnswerable == ExchangeSpec => []AwaitingMeansAnswerable
<1>1. ASSUME NEW f \in Firms \ suspended, NEW o \in AwaitingAnswer(f)
      PROVE  MayAnswer(f, o, Decline)
  BY DEF AwaitingAnswer, IncomingFilter, MayAnswer
<1>2. ASSUME NEW f \in Firms \ suspended, NEW o \in Offers, NEW p \in Prices,
             MayAnswer(f, o, p), answers[o][f] = NoAnswer
      PROVE  o \in AwaitingAnswer(f)
  BY <1>2, ExchangeAssumption DEF AwaitingAnswer, IncomingFilter, MayAnswer, Decline
<1>3. AwaitingMeansAnswerable
  BY <1>1, <1>2 DEF AwaitingMeansAnswerable
<1> QED BY <1>3, PTL

(***************************************************************************)
(* The notices.  A call that has still to notify carries the outcome it    *)
(* was begun for, and no later write can take that outcome back; an offer  *)
(* that went to nobody has no winner, and a company passed over is not the *)
(* winner.                                                                 *)
(***************************************************************************)
NoticeCalls ==
    \A c \in calls :
        /\ c.kind = "tellAward" => offer[c.offer].state = "AWARDED" /\ offer[c.offer].winner = c.firm
        /\ c.kind = "tellWithdrawal" => offer[c.offer].state = "WITHDRAWN"

WinnersWereAwarded == \A o \in Offers : offer[o].state \in {"OPEN", "WITHDRAWN"} => offer[o].winner = NoFirm

PassedOverLost ==
    \A o \in Offers, f \in Firms :
        answers[o][f].outcome = "NOT_SELECTED" => offer[o].state = "AWARDED" /\ offer[o].winner # f

NoticeInv == NoticeCalls /\ WinnersWereAwarded /\ PassedOverLost /\ NoticesMatchOutcome

\* A step that writes no offer, marks no answer NOT_SELECTED, sends no notice of an outcome
\* and begins no call that would.
LEMMA NoOutcomeWritten ==
    ASSUME ExchangeInv, NoticeInv, UNCHANGED <<offer, request>>,
           \A o \in Offers, f \in Firms :
              answers'[o][f].outcome = "NOT_SELECTED" => answers[o][f].outcome = "NOT_SELECTED",
           told \subseteq told',
           \A o \in Offers, f \in Firms :
              /\ <<o, f, "won">> \in told' => <<o, f, "won">> \in told
              /\ <<o, f, "closed">> \in told' => <<o, f, "closed">> \in told,
           \A c \in calls' : c.kind \in {"tellAward", "tellWithdrawal"} => c \in calls,
           \A c \in calls : c.kind = "tellAward" => c \in calls'
    PROVE  NoticeInv'
<1>1. NoticeCalls' /\ WinnersWereAwarded' /\ PassedOverLost'
  BY DEF NoticeInv, NoticeCalls, WinnersWereAwarded, PassedOverLost
<1>2. \A o \in Offers : NoticesOut(o)' => NoticesOut(o)
  BY DEF NoticesOut
<1>3. NoticesMatchOutcome'
  BY <1>2 DEF NoticeInv, NoticesMatchOutcome
<1> QED BY <1>1, <1>3 DEF NoticeInv

\* Of an offer that is not AWARDED or WITHDRAWN nobody has been told an outcome.
LEMMA NoEarlyNotice ==
    ASSUME NoticeInv, NEW o \in Offers, offer[o].state \notin {"AWARDED", "WITHDRAWN"}
    PROVE  /\ \A f \in Firms : <<o, f, "won">> \notin told /\ <<o, f, "closed">> \notin told
           /\ \A c \in calls : c.kind \in {"tellAward", "tellWithdrawal"} => c.offer # o
  BY DEF NoticeInv, NoticesMatchOutcome, NoticeCalls

\* A step that raises, migrates, withdraws or awards one offer, and sends no notice yet.
LEMMA OutcomeWritten ==
    ASSUME ExchangeInv, NoticeInv, NEW o \in Offers, offer[o].state \notin {"AWARDED", "WITHDRAWN"},
           UNCHANGED request,
           \A p \in Offers : p # o => offer'[p] = offer[p] /\ answers'[p] = answers[p],
           offer'[o].state \in {"OPEN", "WITHDRAWN"} => offer'[o].winner = NoFirm,
           \A f \in Firms : answers'[o][f].outcome = "NOT_SELECTED" =>
              offer'[o].state = "AWARDED" /\ offer'[o].winner # f,
           offer'[o].state = "AWARDED" /\ request[o].state # "ACCEPTED" => ~NoticesOut(o)',
           told \subseteq told',
           \A p \in Offers, f \in Firms :
              /\ <<p, f, "won">> \in told' => <<p, f, "won">> \in told
              /\ <<p, f, "closed">> \in told' => <<p, f, "closed">> \in told,
           \A c \in calls' :
              \/ c.kind \notin {"tellAward", "tellWithdrawal"}
              \/ c \in calls
              \/ c.offer = o /\ c.kind = "tellAward" /\ offer'[o].state = "AWARDED" /\ offer'[o].winner = c.firm
              \/ c.offer = o /\ c.kind = "tellWithdrawal" /\ offer'[o].state = "WITHDRAWN",
           \A c \in calls : c.kind = "tellAward" => c \in calls'
    PROVE  NoticeInv'
<1>1. /\ \A f \in Firms : <<o, f, "won">> \notin told /\ <<o, f, "closed">> \notin told
      /\ \A c \in calls : c.kind \in {"tellAward", "tellWithdrawal"} => c.offer # o
  BY NoEarlyNotice
<1>2. \A c \in calls : c.offer \in Offers
  BY DEF ExchangeInv, Documents, Calls
<1>3. NoticeCalls'
  BY <1>1, <1>2 DEF NoticeInv, NoticeCalls
<1>4. WinnersWereAwarded' /\ PassedOverLost'
  BY DEF NoticeInv, WinnersWereAwarded, PassedOverLost
<1>5. \A p \in Offers : NoticesOut(p)' => NoticesOut(p)
  BY DEF NoticesOut
<1>6. NoticesMatchOutcome'
  <2> SUFFICES ASSUME NEW p \in Offers
               PROVE  /\ \A f \in Firms :
                            /\ <<p, f, "won">> \in told' => offer'[p].state = "AWARDED" /\ offer'[p].winner = f
                            /\ <<p, f, "closed">> \in told' =>
                                  offer'[p].state \in {"AWARDED", "WITHDRAWN"} /\ offer'[p].winner # f
                      /\ offer'[p].state = "AWARDED" /\ request'[p].state # "ACCEPTED" /\ NoticesOut(p)' =>
                            /\ <<p, offer'[p].winner, "won">> \in told'
                            /\ \A f \in Firms :
                                  answers'[p][f].outcome = "NOT_SELECTED" => <<p, f, "closed">> \in told'
    BY Zenon DEF NoticesMatchOutcome
  <2>1. CASE p = o
    BY <1>1, <2>1
  <2>2. CASE p # o
    BY <1>5, <2>2 DEF NoticeInv, NoticesMatchOutcome
  <2> QED BY <2>1, <2>2
<1> QED BY <1>3, <1>4, <1>6 DEF NoticeInv

LEMMA NoticesOfCreate ==
    ASSUME ExchangeInv, NoticeInv, NEW f \in Firms, NEW o \in Offers, Create(f, o)
    PROVE  NoticeInv'
<1> DEFINE new == [state |-> "OPEN", raiser |-> f, parties |-> {f}, openToMarket |-> TRUE,
                   winner |-> NoFirm, agreed |-> Decline]
<1>1. /\ offer[o] = NoOffer /\ offer' = [offer EXCEPT ![o] = new]
      /\ told' = told \cup {<<o, g, "available">> : g \in Eligible(f)}
      /\ UNCHANGED <<answers, calls, request>>
  BY DEF Create
<1>2. new.state = "OPEN" /\ new.winner = NoFirm
  OBVIOUS
<1> HIDE DEF new
<1>3. offer'[o] = new /\ \A p \in Offers : p # o => offer'[p] = offer[p]
  BY <1>1 DEF ExchangeInv, Documents
<1>4. offer[o].state = "none"
  BY <1>1 DEF NoOffer
<1>5. \A g \in Firms : answers'[o][g].outcome # "NOT_SELECTED"
  BY <1>1, <1>4 DEF NoticeInv, PassedOverLost
<1> QED BY <1>1, <1>2, <1>3, <1>4, <1>5, OutcomeWritten

LEMMA NoticesOfWithdraw ==
    ASSUME ExchangeInv, NoticeInv, NEW o \in Offers, Withdraw(o)
    PROVE  NoticeInv'
<1> DEFINE new == [offer[o] EXCEPT !.state = "WITHDRAWN"]
           call == Call("tellWithdrawal", o, offer[o].raiser, Decline)
<1>1. /\ offer[o].state = "OPEN" /\ offer[o] \in ExchangeOffer /\ offer' = [offer EXCEPT ![o] = new]
      /\ calls' = calls \cup {call}
      /\ UNCHANGED <<answers, told, request>>
  BY DEF Withdraw, Waits, ExchangeInv, Documents
<1>2. new.state = "WITHDRAWN" /\ new.winner = NoFirm
  BY <1>1 DEF ExchangeOffer, NoticeInv, WinnersWereAwarded
<1>3. call.kind = "tellWithdrawal" /\ call.offer = o
  BY DEF Call
<1> HIDE DEF new, call
<1>4. offer'[o] = new /\ \A p \in Offers : p # o => offer'[p] = offer[p]
  BY <1>1 DEF ExchangeInv, Documents
<1>5. \A g \in Firms : answers'[o][g].outcome # "NOT_SELECTED"
  BY <1>1 DEF NoticeInv, PassedOverLost
<1> QED BY <1>1, <1>2, <1>3, <1>4, <1>5, OutcomeWritten

LEMMA NoticesOfAward ==
    ASSUME ExchangeInv, NoticeInv, NEW c \in calls, AwardCommit(c)
    PROVE  NoticeInv'
<1> DEFINE o == c.offer
           new == [offer[o] EXCEPT !.state = "AWARDED", !.winner = c.firm, !.agreed = c.price]
           call == Call("tellAward", o, c.firm, c.price)
<1>1. o \in Offers /\ c.firm \in Firms /\ c.kind = "award" /\ UNCHANGED <<told, request>>
  BY DEF ExchangeInv, Documents, Calls, AwardCommit
<1>2. CASE offer[o].state # "OPEN"
  BY <1>1, <1>2, NoOutcomeWritten DEF AwardCommit
<1>3. CASE offer[o].state = "OPEN"
  <2>1. /\ offer' = [offer EXCEPT ![o] = new] /\ calls' = (calls \ {c}) \cup {call}
        /\ answers' = [answers EXCEPT ![o] = [g \in Firms |->
              CASE g = c.firm -> [answers[o][g] EXCEPT !.outcome = "AWARDED"]
                [] g # c.firm /\ answers[o][g] # NoAnswer -> [answers[o][g] EXCEPT !.outcome = "NOT_SELECTED"]
                [] OTHER -> answers[o][g]]]
    BY <1>3 DEF AwardCommit
  <2>2. offer[o] \in ExchangeOffer
    BY <1>1, <1>3 DEF ExchangeInv, Documents, NoOffer
  <2>3. new.state = "AWARDED" /\ new.winner = c.firm
    BY <2>2 DEF ExchangeOffer
  <2>4. call.kind = "tellAward" /\ call.offer = o /\ call.firm = c.firm
    BY DEF Call
  <2>5. answers[o][c.firm] \in ExchangeProposal
    BY <1>1, AnswerShape DEF ExchangeInv, AwardCallIsPriced
  <2>6. answers'[o][c.firm].outcome = "AWARDED" /\ \A p \in Offers : p # o => answers'[p] = answers[p]
    BY <1>1, <2>1, <2>5 DEF ExchangeInv, Documents, ExchangeProposal
  <2> HIDE DEF new, call
  <2>7. offer'[o] = new /\ \A p \in Offers : p # o => offer'[p] = offer[p]
    BY <1>1, <2>1 DEF ExchangeInv, Documents
  <2>8. ~NoticesOut(o)'
    BY <2>1, <2>4 DEF NoticesOut
  <2> HIDE DEF o
  <2> QED BY <1>1, <1>3, <2>1, <2>3, <2>4, <2>6, <2>7, <2>8, OutcomeWritten
<1> QED BY <1>2, <1>3

\* The migration converts a request nobody has been told of in the new exchange.
LEMMA NoticesOfMigration ==
    ASSUME ExchangeInv, NoticeInv, NEW o \in Offers, MigrateOffer(o)
    PROVE  NoticeInv'
<1> DEFINE q == request[o]
           new == [state |-> MapState(q.state), raiser |-> q.raiser, parties |-> {q.raiser, q.recipient},
                   openToMarket |-> FALSE,
                   winner |-> IF q.state = "ACCEPTED" THEN q.recipient ELSE NoFirm,
                   agreed |-> IF q.state = "ACCEPTED" THEN q.price ELSE Decline]
<1>1. offer[o] = NoOffer /\ offer' = [offer EXCEPT ![o] = new] /\ UNCHANGED <<answers, calls, told, request>>
  BY DEF MigrateOffer
<1>2. /\ new.state = MapState(q.state)
      /\ new.winner = IF q.state = "ACCEPTED" THEN q.recipient ELSE NoFirm
  OBVIOUS
<1>3. request[o] \in ExchangeRequest
  BY DEF MigrateOffer, ExchangeInv, Documents
<1>4. /\ new.state \in {"OPEN", "WITHDRAWN"} => new.winner = NoFirm
      /\ new.state = "AWARDED" => request[o].state = "ACCEPTED"
  BY <1>2, <1>3 DEF MapState, ExchangeRequest, ExchangeRequestState
<1> HIDE DEF new
<1>5. offer'[o] = new /\ \A p \in Offers : p # o => offer'[p] = offer[p]
  BY <1>1 DEF ExchangeInv, Documents
<1>6. offer[o].state = "none"
  BY <1>1 DEF NoOffer
<1>7. \A g \in Firms : answers'[o][g].outcome # "NOT_SELECTED"
  BY <1>1, <1>6 DEF NoticeInv, PassedOverLost
<1> QED BY <1>1, <1>4, <1>5, <1>6, <1>7, OutcomeWritten

\* The notices of an award go to its winner and to whom it passed over.
LEMMA AwardNotified ==
    ASSUME ExchangeInv, NoticeInv, NEW c \in calls, NotifyAward(c)
    PROVE  NoticeInv'
<1>1. /\ c.offer \in Offers /\ c.firm \in Firms /\ c.kind = "tellAward" /\ calls' = calls \ {c}
      /\ UNCHANGED <<offer, answers, request>>
      /\ told' = told \cup {<<c.offer, c.firm, "won">>} \cup
           {<<c.offer, g, "closed">> : g \in {h \in Firms : answers[c.offer][h].outcome = "NOT_SELECTED"}}
  BY DEF NotifyAward, ExchangeInv, Documents, Calls
<1>2. offer[c.offer].state = "AWARDED" /\ offer[c.offer].winner = c.firm
  BY <1>1 DEF NoticeInv, NoticeCalls
<1>3. NoticeCalls' /\ WinnersWereAwarded' /\ PassedOverLost'
  BY <1>1 DEF NoticeInv, NoticeCalls, WinnersWereAwarded, PassedOverLost
<1>4. /\ told \subseteq told' /\ <<c.offer, c.firm, "won">> \in told'
      /\ \A f \in Firms : answers[c.offer][f].outcome = "NOT_SELECTED" => <<c.offer, f, "closed">> \in told'
  BY <1>1
<1>5. \A p \in Offers, f \in Firms :
         /\ <<p, f, "won">> \in told' => <<p, f, "won">> \in told \/ (p = c.offer /\ f = c.firm)
         /\ <<p, f, "closed">> \in told' =>
               <<p, f, "closed">> \in told \/ (p = c.offer /\ answers[p][f].outcome = "NOT_SELECTED")
  BY <1>1
<1>6. \A p \in Offers : p # c.offer /\ NoticesOut(p)' => NoticesOut(p)
  BY <1>1 DEF NoticesOut
<1>7. NoticesMatchOutcome'
  <2> SUFFICES ASSUME NEW p \in Offers
               PROVE  /\ \A f \in Firms :
                            /\ <<p, f, "won">> \in told' => offer'[p].state = "AWARDED" /\ offer'[p].winner = f
                            /\ <<p, f, "closed">> \in told' =>
                                  offer'[p].state \in {"AWARDED", "WITHDRAWN"} /\ offer'[p].winner # f
                      /\ offer'[p].state = "AWARDED" /\ request'[p].state # "ACCEPTED" /\ NoticesOut(p)' =>
                            /\ <<p, offer'[p].winner, "won">> \in told'
                            /\ \A f \in Firms :
                                  answers'[p][f].outcome = "NOT_SELECTED" => <<p, f, "closed">> \in told'
    BY Zenon DEF NoticesMatchOutcome
  <2>1. \A f \in Firms :
           /\ <<p, f, "won">> \in told' => offer'[p].state = "AWARDED" /\ offer'[p].winner = f
           /\ <<p, f, "closed">> \in told' =>
                 offer'[p].state \in {"AWARDED", "WITHDRAWN"} /\ offer'[p].winner # f
    <3> SUFFICES ASSUME NEW f \in Firms
                 PROVE  /\ <<p, f, "won">> \in told' => offer[p].state = "AWARDED" /\ offer[p].winner = f
                        /\ <<p, f, "closed">> \in told' =>
                              offer[p].state \in {"AWARDED", "WITHDRAWN"} /\ offer[p].winner # f
      BY <1>1
    <3>1. /\ <<p, f, "won">> \in told => offer[p].state = "AWARDED" /\ offer[p].winner = f
          /\ <<p, f, "closed">> \in told => offer[p].state \in {"AWARDED", "WITHDRAWN"} /\ offer[p].winner # f
      BY DEF NoticeInv, NoticesMatchOutcome
    <3>2. answers[p][f].outcome = "NOT_SELECTED" => offer[p].state = "AWARDED" /\ offer[p].winner # f
      BY DEF NoticeInv, PassedOverLost
    <3> QED BY <1>2, <1>5, <3>1, <3>2
  <2>2. CASE p = c.offer
    BY <1>1, <1>2, <1>4, <2>1, <2>2
  <2>3. CASE p # c.offer
    BY <1>1, <1>4, <1>6, <2>1, <2>3 DEF NoticeInv, NoticesMatchOutcome
  <2> QED BY <2>2, <2>3
<1> QED BY <1>3, <1>7 DEF NoticeInv

\* The notices of a withdrawal go to companies the offer did not go to.
LEMMA WithdrawalNotified ==
    ASSUME ExchangeInv, NoticeInv, NEW c \in calls, NotifyWithdrawal(c)
    PROVE  NoticeInv'
<1> DEFINE live == {<<c.offer, g, "closed">> : g \in {h \in Firms : answers[c.offer][h].outcome = "PROPOSED"}}
<1>1. /\ c.offer \in Offers /\ c.kind = "tellWithdrawal" /\ calls' = calls \ {c}
      /\ UNCHANGED <<offer, answers, request>> /\ told' = told \cup live
  BY DEF NotifyWithdrawal, ExchangeInv, Documents, Calls
<1>2. offer[c.offer].state = "WITHDRAWN" /\ offer[c.offer].winner = NoFirm
  BY <1>1 DEF NoticeInv, NoticeCalls, WinnersWereAwarded
<1>3. NoticeCalls' /\ WinnersWereAwarded' /\ PassedOverLost'
  BY <1>1 DEF NoticeInv, NoticeCalls, WinnersWereAwarded, PassedOverLost
<1>4. /\ told \subseteq told'
      /\ \A p \in Offers, f \in Firms :
            /\ <<p, f, "won">> \in told' => <<p, f, "won">> \in told
            /\ <<p, f, "closed">> \in told' => <<p, f, "closed">> \in told \/ p = c.offer
  BY <1>1
<1>5. \A p \in Offers : NoticesOut(p)' => NoticesOut(p)
  BY <1>1 DEF NoticesOut
<1> HIDE DEF live
<1>6. NoticesMatchOutcome'
  BY <1>1, <1>2, <1>4, <1>5, ExchangeAssumption DEF NoticeInv, NoticesMatchOutcome
<1> QED BY <1>3, <1>6 DEF NoticeInv

\* Every action keeps the notices true.
LEMMA NoticeStep ==
    ASSUME ExchangeInv, NoticeInv, [ExchangeNext]_exchangeVars
    PROVE  NoticeInv'
<1>1. CASE UNCHANGED exchangeVars
  BY <1>1, NoOutcomeWritten DEF exchangeVars
<1>2. ASSUME NEW f \in Firms, SetFirmStatus(f)
      PROVE  NoticeInv'
  BY <1>2, NoOutcomeWritten DEF SetFirmStatus
<1>3. ASSUME NEW f \in Firms, NEW o \in Offers, NEW p \in Prices \cup {Decline}, Propose(f, o, p)
      PROVE  NoticeInv'
  BY <1>3, NoOutcomeWritten DEF Propose, Waits, Call
<1>4. ASSUME NEW f \in Firms, NEW o \in Offers, Award(o, f)
      PROVE  NoticeInv'
  BY <1>4, NoOutcomeWritten DEF Award, Waits, Call
<1>5. ASSUME NEW c \in calls, ProposeInsert(c)
      PROVE  NoticeInv'
  <2>1. /\ c.offer \in Offers /\ c.firm \in Firms /\ c.kind = "propose" /\ calls' = calls \ {c}
        /\ UNCHANGED <<offer, request>>
    BY <1>5 DEF ProposeInsert, ExchangeInv, Documents, Calls
  <2>2. \A o \in Offers, f \in Firms :
           answers'[o][f].outcome = "NOT_SELECTED" => answers[o][f].outcome = "NOT_SELECTED"
    <3> DEFINE new == [outcome |-> IF c.price = Decline THEN "DECLINED" ELSE "PROPOSED", price |-> c.price]
    <3>1. new.outcome # "NOT_SELECTED"
      OBVIOUS
    <3>2. answers' = answers \/ answers' = [answers EXCEPT ![c.offer][c.firm] = new]
      BY <1>5 DEF ProposeInsert
    <3> HIDE DEF new
    <3> QED BY <2>1, <3>1, <3>2 DEF ExchangeInv, Documents
  <2>3. /\ told \subseteq told'
        /\ \A o \in Offers, f \in Firms :
              /\ <<o, f, "won">> \in told' => <<o, f, "won">> \in told
              /\ <<o, f, "closed">> \in told' => <<o, f, "closed">> \in told
    BY <1>5 DEF ProposeInsert
  <2> QED BY <2>1, <2>2, <2>3, NoOutcomeWritten
<1>6. ASSUME NEW o \in Offers, MigrateProposal(o)
      PROVE  NoticeInv'
  <2>1. UNCHANGED <<offer, calls, told, request>>
    BY <1>6 DEF MigrateProposal
  <2>2. \A p \in Offers, f \in Firms :
           answers'[p][f].outcome = "NOT_SELECTED" => answers[p][f].outcome = "NOT_SELECTED"
    BY <1>6 DEF MigrateProposal, ExchangeInv, Documents
  <2> QED BY <2>1, <2>2, NoOutcomeWritten
<1>7. ASSUME NEW o \in Offers, MigrationDies(o)
      PROVE  NoticeInv'
  BY <1>7, NoOutcomeWritten DEF MigrationDies
<1>8. CASE Live /\ MarketNext
  BY <1>2, <1>3, <1>4, <1>5, <1>8, NoticesOfCreate, NoticesOfWithdraw, NoticesOfAward, AwardNotified,
     WithdrawalNotified DEF MarketNext
<1>9. CASE MigrationNext
  BY <1>6, <1>7, <1>9, NoticesOfMigration DEF MigrationNext
<1> QED
  BY <1>1, <1>8, <1>9 DEF ExchangeNext

\* What companies are told of an offer agrees with what became of it, and an award's notices
\* reach everyone it concerns, however answers, awards, withdrawals and notices overtake each
\* other.
THEOREM NoticesAreTrue == ExchangeSpec => []NoticesMatchOutcome
<1>1. ExchangeInit => NoticeInv
  BY DEF ExchangeInit, NoticeInv, NoticeCalls, WinnersWereAwarded, PassedOverLost, NoticesMatchOutcome,
         NoOffer, NoAnswer
<1>2. ExchangeSpec => []NoticeInv
  BY <1>1, NoticeStep, ExchangeInvariant, PTL DEF ExchangeSpec
<1> QED BY <1>2, PTL DEF NoticeInv


-----------------------------------------------------------------------------
(* Announcements.                                                            *)

Recipients == Admins \cup Tenants
FanRecord == [pc : {"next", "notify", "link"}, left : SUBSET Candidate, at : Recipients \cup {Nobody},
              delivered : Nat, failed : Nat]

\* Only an administrator is ever reached.
ReachedIsAdmin(cs) == \A c \in cs : c.reason = Reached => c.to \in Admins

FanTyped ==
    /\ rows \in [Recipients -> AnnouncementDelivery] /\ notes \in [Admins -> Nat]
    /\ DOMAIN fan = FanWorkers
    /\ \A w \in FanWorkers : fan[w] = Idle \/ (fan[w] \in FanRecord /\ ReachedIsAdmin(fan[w].left))

Serving(w) == fan[w] # Idle /\ fan[w].pc \in {"notify", "link"}

\* A worker between the row and the link owns its recipient: the row is its own
\* and bare, and the one notification, if written, was written by it.
ServedIsOwned ==
    \A w \in FanWorkers : Serving(w) =>
        /\ fan[w].at \in Admins
        /\ rows[fan[w].at] = "bare"
        /\ notes[fan[w].at] = IF fan[w].pc = "notify" THEN 0 ELSE 1
ServedAlone ==
    \A v, w \in FanWorkers : Serving(v) /\ Serving(w) /\ fan[v].at = fan[w].at => v = w

\* A notification stands behind a row that was inserted for it.
NotedIsRowed ==
    \A a \in Admins : notes[a] > 0 => notes[a] = 1 /\ rows[a] \in {"bare", "linked"}

AnnounceInv == FanTyped /\ ServedIsOwned /\ ServedAlone /\ NotedIsRowed

LEMMA AnnounceInitially == AnnounceInit => AnnounceInv
<1> SUFFICES ASSUME AnnounceInit PROVE AnnounceInv
  OBVIOUS
<1>1. FanTyped
  <2>1. "none" \in AnnouncementDelivery
    BY DEF AnnouncementDelivery
  <2>2. rows \in [Recipients -> AnnouncementDelivery] /\ notes \in [Admins -> Nat]
    BY <2>1 DEF AnnounceInit, Recipients
  <2>3. DOMAIN fan = FanWorkers /\ \A w \in FanWorkers : fan[w] = Idle
    BY DEF AnnounceInit
  <2> QED BY <2>2, <2>3 DEF FanTyped
<1>2. \A w \in FanWorkers : ~Serving(w)
  BY DEF AnnounceInit, Serving
<1>3. \A a \in Admins : notes[a] = 0
  BY DEF AnnounceInit
<1> QED BY <1>1, <1>2, <1>3 DEF AnnounceInv, ServedIsOwned, ServedAlone, NotedIsRowed

LEMMA CandidatesReached == Candidates \subseteq Candidate /\ ReachedIsAdmin(Candidates)
<1>1. \A c \in Candidates : c \in Candidate /\ (c.reason = Reached => c.to \in Admins)
  <2> SUFFICES ASSUME NEW c \in Candidates
               PROVE  c \in Candidate /\ (c.reason = Reached => c.to \in Admins)
    OBVIOUS
  <2>1. CASE \E a \in Admins : c = [to |-> a, reason |->
                 CASE TenantOf[a] \notin trading -> "COMPANY_SUSPENDED"
                   [] TenantOf[a] \in trading /\ a \notin enabled -> "ADMIN_DEACTIVATED"
                   [] OTHER -> Reached]
    <3>1. PICK a \in Admins : c = [to |-> a, reason |->
                 CASE TenantOf[a] \notin trading -> "COMPANY_SUSPENDED"
                   [] TenantOf[a] \in trading /\ a \notin enabled -> "ADMIN_DEACTIVATED"
                   [] OTHER -> Reached]
      BY <2>1
    <3>2. c.to = a /\ c.reason \in FailureReason \cup {Reached}
      BY <3>1 DEF FailureReason
    <3> QED BY <3>1, <3>2 DEF Candidate
  <2>2. CASE \E t \in Tenants : c = [to |-> t, reason |-> "NO_ACTIVE_ADMIN"]
    BY <2>2 DEF Candidate, FailureReason, Reached
  <2> QED BY <2>1, <2>2 DEF Candidates
<1> QED BY <1>1 DEF ReachedIsAdmin

\* A step that changes one worker, which then serves nobody, and no row or note.
LEMMA WorkerRests ==
    ASSUME AnnounceInv, NEW w \in FanWorkers, NEW f, UNCHANGED <<rows, notes>>,
           fan' = [fan EXCEPT ![w] = f],
           f = Idle \/ (f \in FanRecord /\ ReachedIsAdmin(f.left) /\ f.pc = "next")
    PROVE  AnnounceInv'
<1>1. fan'[w] = f /\ \A v \in FanWorkers : v # w => fan'[v] = fan[v]
  BY DEF AnnounceInv, FanTyped
<1>2. FanTyped'
  BY <1>1 DEF AnnounceInv, FanTyped
<1>3. ~Serving(w)' /\ \A v \in FanWorkers : v # w => (Serving(v)' <=> Serving(v))
  BY <1>1 DEF Serving
<1>4. ServedIsOwned' /\ ServedAlone'
  BY <1>1, <1>3 DEF AnnounceInv, ServedIsOwned, ServedAlone
<1> QED BY <1>2, <1>4 DEF AnnounceInv, NotedIsRowed

LEMMA FanOutKeeps ==
    ASSUME AnnounceInv, NEW w \in FanWorkers, FanOut(w) PROVE AnnounceInv'
<1> DEFINE f == [pc |-> "next", left |-> Candidates, at |-> Nobody, delivered |-> 0, failed |-> 0]
<1>1. fan' = [fan EXCEPT ![w] = f] /\ UNCHANGED <<rows, notes>>
  BY DEF FanOut
<1>2. f \in FanRecord /\ f.left = Candidates /\ f.pc = "next"
  BY CandidatesReached DEF FanRecord
<1> HIDE DEF f
<1> QED BY <1>1, <1>2, CandidatesReached, WorkerRests

LEMMA CompleteKeeps ==
    ASSUME AnnounceInv, NEW w \in FanWorkers, Complete(w) \/ WorkerDies(w) PROVE AnnounceInv'
<1>1. fan' = [fan EXCEPT ![w] = Idle] /\ UNCHANGED <<rows, notes>>
  BY DEF Complete, WorkerDies
<1> DEFINE f == Idle
<1>2. fan' = [fan EXCEPT ![w] = f] /\ f = Idle
  BY <1>1
<1> HIDE DEF f
<1> QED BY <1>1, <1>2, WorkerRests

LEMMA DeliverKeeps ==
    ASSUME AnnounceInv, NEW w \in FanWorkers, NEW c \in Candidate, DeliverTo(w, c)
    PROVE  AnnounceInv'
<1> DEFINE f == fan[w]
           rest == f.left \ {c}
<1>1. f \in FanRecord /\ ReachedIsAdmin(f.left) /\ f.pc = "next" /\ c \in f.left /\ notes' = notes
  BY DEF DeliverTo, AnnounceInv, FanTyped
<1>2. rest \in SUBSET Candidate /\ ReachedIsAdmin(rest) /\ c.to \in Recipients
  BY <1>1 DEF FanRecord, ReachedIsAdmin, Candidate, Recipients
<1>3. CASE rows[c.to] # "none"
  <2> DEFINE g == [f EXCEPT !.left = rest]
  <2>1. fan' = [fan EXCEPT ![w] = g] /\ UNCHANGED <<rows, notes>>
    BY <1>3 DEF DeliverTo
  <2>2. g \in FanRecord /\ g.left = rest /\ g.pc = "next"
    <3> HIDE DEF f, rest
    <3> QED BY <1>1, <1>2 DEF FanRecord
  <2> HIDE DEF g, rest
  <2> QED BY <1>2, <2>1, <2>2, WorkerRests
<1>4. CASE rows[c.to] = "none"
  <2> DEFINE reached == c.reason = Reached
             pc == IF reached THEN "notify" ELSE "next"
             failed == IF ~reached THEN f.failed + 1 ELSE f.failed
             g == [f EXCEPT !.left = rest, !.at = c.to, !.pc = pc, !.failed = failed]
             row == IF reached THEN "bare" ELSE c.reason
  <2>1. fan' = [fan EXCEPT ![w] = g] /\ rows' = [rows EXCEPT ![c.to] = row]
    BY <1>4 DEF DeliverTo
  <2>2. g \in FanRecord /\ g.left = rest /\ g.pc = pc /\ g.at = c.to
    <3>1. pc \in {"next", "notify", "link"} /\ failed \in Nat /\ c.to \in Recipients \cup {Nobody}
      BY <1>1, <1>2 DEF FanRecord
    <3> HIDE DEF f, rest, pc, failed
    <3> QED BY <1>1, <1>2, <3>1 DEF FanRecord
  <2>3. row \in AnnouncementDelivery /\ row # "none"
    BY DEF Candidate, AnnouncementDelivery, FailureReason
  <2> HIDE DEF g, rest
  <2>4. fan'[w] = g /\ \A v \in FanWorkers : v # w => fan'[v] = fan[v]
    BY <2>1 DEF AnnounceInv, FanTyped
  <2>5. rows'[c.to] = row /\ \A r \in Recipients : r # c.to => rows'[r] = rows[r]
    BY <1>2, <2>1 DEF AnnounceInv, FanTyped
  <2>6. FanTyped'
    <3>1. rows' \in [Recipients -> AnnouncementDelivery] /\ notes' \in [Admins -> Nat]
      BY <1>1, <2>1, <2>3 DEF AnnounceInv, FanTyped
    <3>2. DOMAIN fan' = FanWorkers
      BY <2>1 DEF AnnounceInv, FanTyped
    <3> QED BY <1>2, <2>2, <2>4, <3>1, <3>2 DEF AnnounceInv, FanTyped
  <2>7. /\ Serving(w)' <=> reached
        /\ \A v \in FanWorkers : v # w => (Serving(v)' <=> Serving(v))
    BY <2>2, <2>4 DEF Serving, Idle, FanRecord
  <2>8. \A v \in FanWorkers : Serving(v) => v # w /\ fan[v].at # c.to /\ fan[v].at \in Recipients
    BY <1>1, <1>4 DEF AnnounceInv, ServedIsOwned, Serving, Recipients
  <2>9. reached => c.to \in Admins /\ notes[c.to] = 0
    <3>1. reached => c.to \in Admins
      BY <1>1 DEF ReachedIsAdmin
    <3> QED BY <1>4, <3>1 DEF AnnounceInv, NotedIsRowed, FanTyped
  <2>10. ServedIsOwned'
    <3> SUFFICES ASSUME NEW v \in FanWorkers, Serving(v)'
                 PROVE  /\ fan'[v].at \in Admins /\ rows'[fan'[v].at] = "bare"
                        /\ notes'[fan'[v].at] = IF fan'[v].pc = "notify" THEN 0 ELSE 1
      BY DEF ServedIsOwned
    <3>1. CASE v = w
      BY <1>1, <2>2, <2>4, <2>5, <2>7, <2>9, <3>1
    <3>2. CASE v # w
      BY <1>1, <2>4, <2>5, <2>7, <2>8, <3>2 DEF AnnounceInv, ServedIsOwned
    <3> QED BY <3>1, <3>2
  <2>11. ServedAlone'
    BY <2>2, <2>4, <2>7, <2>8 DEF AnnounceInv, ServedAlone
  <2>12. NotedIsRowed'
    BY <1>1, <1>4, <2>5 DEF AnnounceInv, NotedIsRowed, Recipients
  <2> QED BY <2>6, <2>10, <2>11, <2>12 DEF AnnounceInv
<1> QED BY <1>3, <1>4

LEMMA NotifyKeeps ==
    ASSUME AnnounceInv, NEW w \in FanWorkers, Notify(w) PROVE AnnounceInv'
<1> DEFINE f == fan[w]
           g == [f EXCEPT !.pc = "link"]
           a == f.at
<1>1. /\ f \in FanRecord /\ ReachedIsAdmin(f.left) /\ f.pc = "notify" /\ Serving(w)
      /\ fan' = [fan EXCEPT ![w] = g] /\ rows' = rows /\ notes' = [notes EXCEPT ![a] = @ + 1]
  BY DEF Notify, AnnounceInv, FanTyped, Serving
<1>2. a \in Admins /\ rows[a] = "bare" /\ notes[a] = 0
  BY <1>1 DEF AnnounceInv, ServedIsOwned
<1>3. g \in FanRecord /\ g.left = f.left /\ g.pc = "link" /\ g.at = a
  <2> HIDE DEF f
  <2> QED BY <1>1 DEF FanRecord
<1> HIDE DEF g
<1>4. fan'[w] = g /\ \A v \in FanWorkers : v # w => fan'[v] = fan[v]
  BY <1>1 DEF AnnounceInv, FanTyped
<1>5. notes'[a] = 1 /\ \A b \in Admins : b # a => notes'[b] = notes[b]
  BY <1>1, <1>2 DEF AnnounceInv, FanTyped
<1>6. FanTyped'
  <2>1. notes' \in [Admins -> Nat] /\ DOMAIN fan' = FanWorkers
    BY <1>1, <1>2 DEF AnnounceInv, FanTyped
  <2> QED BY <1>1, <1>3, <1>4, <2>1 DEF AnnounceInv, FanTyped
<1>7. \A v \in FanWorkers : fan'[v].at = fan[v].at /\ (Serving(v)' <=> Serving(v))
  BY <1>1, <1>3, <1>4 DEF Serving, Idle, FanRecord
<1>8. \A v \in FanWorkers : v # w /\ Serving(v) => fan[v].at # a
  BY <1>1 DEF AnnounceInv, ServedAlone
<1>9. ServedIsOwned'
  <2> SUFFICES ASSUME NEW v \in FanWorkers, Serving(v)'
               PROVE  /\ fan'[v].at \in Admins /\ rows'[fan'[v].at] = "bare"
                      /\ notes'[fan'[v].at] = IF fan'[v].pc = "notify" THEN 0 ELSE 1
    BY DEF ServedIsOwned
  <2>1. CASE v = w
    BY <1>1, <1>2, <1>3, <1>4, <1>5, <2>1
  <2>2. CASE v # w
    BY <1>1, <1>4, <1>5, <1>7, <1>8, <2>2 DEF AnnounceInv, ServedIsOwned
  <2> QED BY <2>1, <2>2
<1>10. ServedAlone'
  BY <1>7 DEF AnnounceInv, ServedAlone
<1>11. NotedIsRowed'
  BY <1>1, <1>2, <1>5 DEF AnnounceInv, NotedIsRowed
<1> QED BY <1>6, <1>9, <1>10, <1>11 DEF AnnounceInv

\* A worker stops serving and rewrites at most the row it owned.
LEMMA ServiceEnds ==
    ASSUME AnnounceInv, NEW w \in FanWorkers, Serving(w), NEW g, NEW row \in AnnouncementDelivery,
           fan' = [fan EXCEPT ![w] = g], notes' = notes,
           rows' = [rows EXCEPT ![fan[w].at] = row],
           g = Idle \/ (g \in FanRecord /\ ReachedIsAdmin(g.left) /\ g.pc = "next"),
           row = "linked" \/ (fan[w].pc = "notify" /\ row \in {"none", "bare"})
    PROVE  AnnounceInv'
<1> DEFINE a == fan[w].at
<1>1. a \in Admins /\ rows[a] = "bare" /\ notes[a] = IF fan[w].pc = "notify" THEN 0 ELSE 1
  BY DEF AnnounceInv, ServedIsOwned
<1>2. fan'[w] = g /\ \A v \in FanWorkers : v # w => fan'[v] = fan[v]
  BY DEF AnnounceInv, FanTyped
<1>3. rows'[a] = row /\ \A r \in Recipients : r # a => rows'[r] = rows[r]
  BY <1>1 DEF AnnounceInv, FanTyped, Recipients
<1>4. FanTyped'
  <2>1. rows' \in [Recipients -> AnnouncementDelivery] /\ DOMAIN fan' = FanWorkers
    BY DEF AnnounceInv, FanTyped
  <2> QED BY <1>2, <2>1 DEF AnnounceInv, FanTyped
<1>5. ~Serving(w)' /\ \A v \in FanWorkers : v # w => (Serving(v)' <=> Serving(v))
  BY <1>2 DEF Serving
<1>6. \A v \in FanWorkers : v # w /\ Serving(v) => fan[v].at # a /\ fan[v].at \in Recipients
  BY DEF AnnounceInv, ServedAlone, ServedIsOwned, Recipients
<1>7. ServedIsOwned' /\ ServedAlone'
  BY <1>2, <1>3, <1>5, <1>6 DEF AnnounceInv, ServedIsOwned, ServedAlone
<1>8. NotedIsRowed'
  <2> SUFFICES ASSUME NEW b \in Admins, notes[b] > 0
               PROVE  notes[b] = 1 /\ rows'[b] \in {"bare", "linked"}
    BY DEF NotedIsRowed
  <2>1. CASE b = a
    BY <1>1, <1>3, <2>1
  <2>2. CASE b # a
    BY <1>3, <2>2 DEF AnnounceInv, NotedIsRowed, Recipients
  <2> QED BY <2>1, <2>2
<1> QED BY <1>4, <1>7, <1>8 DEF AnnounceInv

LEMMA NotifyFailsKeeps ==
    ASSUME AnnounceInv, NEW w \in FanWorkers, NotifyFails(w) PROVE AnnounceInv'
<1>1. /\ fan[w].pc = "notify" /\ Serving(w) /\ notes' = notes
      /\ fan' = [fan EXCEPT ![w] = Idle]
      /\ rows' = rows \/ rows' = [rows EXCEPT ![fan[w].at] = "none"]
  BY DEF NotifyFails, Serving
<1> DEFINE f == Idle
           none == "none"
<1>4. fan' = [fan EXCEPT ![w] = f] /\ f = Idle
  BY <1>1
<1> HIDE DEF f
<1>2. CASE rows' = rows
  <2>1. UNCHANGED <<rows, notes>>
    BY <1>1, <1>2
  <2> QED BY <1>4, <2>1, WorkerRests
<1>3. CASE rows' = [rows EXCEPT ![fan[w].at] = "none"]
  <2>1. none \in AnnouncementDelivery /\ none \in {"none", "bare"}
    BY DEF AnnouncementDelivery
  <2>2. rows' = [rows EXCEPT ![fan[w].at] = none]
    BY <1>3
  <2> HIDE DEF none
  <2> QED BY <1>1, <1>4, <2>1, <2>2, ServiceEnds
<1> QED BY <1>1, <1>2, <1>3

LEMMA LinkKeeps ==
    ASSUME AnnounceInv, NEW w \in FanWorkers, Link(w) PROVE AnnounceInv'
<1> DEFINE f == fan[w]
           d == f.delivered + 1
           g == [f EXCEPT !.pc = "next", !.delivered = d]
           linked == "linked"
<1>1. /\ f \in FanRecord /\ ReachedIsAdmin(f.left) /\ Serving(w) /\ notes' = notes
      /\ fan' = [fan EXCEPT ![w] = g] /\ rows' = [rows EXCEPT ![fan[w].at] = linked]
  BY DEF Link, AnnounceInv, FanTyped, Serving
<1>2. g \in FanRecord /\ g.left = f.left /\ g.pc = "next"
  <2>1. d \in Nat
    BY <1>1 DEF FanRecord
  <2> HIDE DEF f, d
  <2> QED BY <1>1, <2>1 DEF FanRecord
<1>3. linked \in AnnouncementDelivery /\ linked = "linked"
  BY DEF AnnouncementDelivery
<1> HIDE DEF g, linked
<1> QED BY <1>1, <1>2, <1>3, ServiceEnds

LEMMA AnnounceStep == AnnounceInv /\ [AnnounceNext]_announceVars => AnnounceInv'
<1> SUFFICES ASSUME AnnounceInv, [AnnounceNext]_announceVars PROVE AnnounceInv'
  OBVIOUS
<1>1. CASE UNCHANGED <<rows, notes, fan>>
  BY <1>1 DEF AnnounceInv, FanTyped, ServedIsOwned, ServedAlone, NotedIsRowed, Serving
<1>2. ASSUME NEW w \in FanWorkers,
             FanOut(w) \/ Notify(w) \/ NotifyFails(w) \/ Link(w) \/ Complete(w) \/ WorkerDies(w)
      PROVE  AnnounceInv'
  BY <1>2, FanOutKeeps, NotifyKeeps, NotifyFailsKeeps, LinkKeeps, CompleteKeeps
<1>3. ASSUME NEW w \in FanWorkers, NEW c \in Candidate, DeliverTo(w, c) PROVE AnnounceInv'
  BY <1>3, DeliverKeeps
<1>4. Compose \/ Change \/ HandOutAgain \/ UNCHANGED announceVars => UNCHANGED <<rows, notes, fan>>
  BY DEF Compose, Change, HandOutAgain, announceVars
<1> QED BY <1>1, <1>2, <1>3, <1>4 DEF AnnounceNext

\* However often the fan-out job is handed out and wherever its workers die,
\* nobody is notified twice, and a recipient recorded as missed is not notified.
THEOREM RecipientsAreToldOnce == AnnounceSpec => []AnnouncedOnce
<1>1. AnnounceInv => AnnouncedOnce
  BY DEF AnnounceInv, FanTyped, NotedIsRowed, AnnouncedOnce, FailureReason
<1> QED BY <1>1, AnnounceInitially, AnnounceStep, PTL DEF AnnounceSpec

(***************************************************************************)
(* The tallies.  Every notification is in the announcement's tally, in the *)
(* count of the worker that wrote it, or was written by a worker about to  *)
(* count it, until that worker dies or throws and its count is lost; every *)
(* named miss likewise.  The counts of any number of workers are summed by *)
(* counting pairs: the first, second, ... of each worker.                  *)
(***************************************************************************)
Pairs(n) == UNION {{w} \X (1..n[w]) : w \in DOMAIN n}
DifferAt(n, m, w) == \A v \in DOMAIN n : v # w => m[v] = n[v]
SumFollows(n, m, w) ==
    /\ IsFiniteSet(Pairs(m)) /\ Cardinality(Pairs(n)) \in Nat /\ Cardinality(Pairs(m)) \in Nat
    /\ Cardinality(Pairs(m)) + n[w] = Cardinality(Pairs(n)) + m[w]
OtherPairs(n, w) == {p \in Pairs(n) : p[1] # w}

\* Notifications and misses a worker will still add to the tallies.
SentBy == [w \in FanWorkers |-> IF fan[w] = Idle THEN 0
                                ELSE fan[w].delivered + IF fan[w].pc = "link" THEN 1 ELSE 0]
MissedBy == [w \in FanWorkers |-> IF fan[w] = Idle THEN 0 ELSE fan[w].failed]

TallyInv ==
    /\ ann \in [state : {"none", "QUEUED", "COMPLETED"}, intended : {ann.intended}, delivered : Nat, failed : Nat]
    /\ deaths \in Nat /\ threw \in BOOLEAN
    /\ SentBy \in [FanWorkers -> Nat] /\ MissedBy \in [FanWorkers -> Nat]
    /\ IsFiniteSet(Pairs(SentBy)) /\ IsFiniteSet(Pairs(MissedBy))
    /\ IsFiniteSet(Notified) /\ IsFiniteSet(Missed)
    /\ ann.delivered + Cardinality(Pairs(SentBy)) <= Cardinality(Notified)
    /\ ann.failed + Cardinality(Pairs(MissedBy)) <= Cardinality(Missed)
    /\ deaths = 0 /\ ~threw =>
          /\ ann.delivered + Cardinality(Pairs(SentBy)) = Cardinality(Notified)
          /\ ann.failed + Cardinality(Pairs(MissedBy)) = Cardinality(Missed)

\* What the pairs are, and how many one worker has.
LEMMA BlockOf ==
    ASSUME NEW w, NEW j \in Nat, NEW p
    PROVE  p \in {w} \X (1..j) <=> \E i \in Nat : p = <<w, i>> /\ 1 <= i /\ i <= j
OBVIOUS

LEMMA PairsOf ==
    ASSUME NEW W, NEW n \in [W -> Nat], NEW p
    PROVE  p \in Pairs(n) <=> \E w \in W, i \in Nat : p = <<w, i>> /\ 1 <= i /\ i <= n[w]
<1>1. p \in Pairs(n) <=> \E w \in W : p \in {w} \X (1..n[w])
  BY DEF Pairs
<1> QED BY <1>1, BlockOf

LEMMA BlockSize ==
    ASSUME NEW w, NEW j \in Nat
    PROVE  IsFiniteSet({w} \X (1..j)) /\ Cardinality({w} \X (1..j)) = j
<1> DEFINE I == 1..j
           block == {w} \X I
<1>1. IsFiniteSet(I) /\ Cardinality(I) = j
  <2>1. 1 \in Int /\ j \in Int
    OBVIOUS
  <2>2. IsFiniteSet(I) /\ Cardinality(I) = IF 1 > j THEN 0 ELSE j - 1 + 1
    BY <2>1, FS_Interval, Zenon
  <2> HIDE DEF I
  <2> QED BY <2>2
<1> HIDE DEF I
<1>2. IsFiniteSet({w}) /\ Cardinality({w}) = 1
  BY FS_Singleton, Zenon
<1>3. IsFiniteSet(block) /\ Cardinality(block) = Cardinality({w}) * Cardinality(I)
  BY <1>1, <1>2, FS_Product, Zenon
<1>4. Cardinality(block) = 1 * j
  BY <1>1, <1>2, <1>3, Zenon
<1> HIDE DEF block
<1>5. IsFiniteSet(block) /\ Cardinality(block) = j
  BY <1>3, <1>4
<1> QED BY <1>5, Zenon DEF block, I

\* The pairs of one worker and those of the others.
LEMMA PairsSplit ==
    ASSUME NEW W, NEW n \in [W -> Nat], NEW w \in W
    PROVE  LET rest == OtherPairs(n, w)
               block == {w} \X (1..n[w])
           IN  rest \cap block = {} /\ rest \cup block = Pairs(n)
<1> DEFINE rest == OtherPairs(n, w)
           block == {w} \X (1..n[w])
<1>1. ASSUME NEW p PROVE p \in block <=> p \in Pairs(n) /\ p[1] = w
  BY BlockOf, PairsOf
<1> HIDE DEF block
<1> QED BY <1>1 DEF block, OtherPairs

LEMMA PairsElsewhere ==
    ASSUME NEW W, NEW n \in [W -> Nat], NEW w \in W, NEW m \in [W -> Nat],
           DifferAt(n, m, w)
    PROVE  OtherPairs(n, w) = OtherPairs(m, w)
<1>1. ASSUME NEW p, p[1] # w PROVE p \in Pairs(m) <=> p \in Pairs(n)
  BY <1>1, PairsOf DEF DifferAt
<1> QED BY <1>1 DEF OtherPairs

LEMMA PairsCount ==
    ASSUME NEW W, NEW n \in [W -> Nat], NEW w \in W, NEW rest, IsFiniteSet(rest),
           rest = OtherPairs(n, w)
    PROVE  /\ IsFiniteSet(Pairs(n)) /\ Cardinality(rest) \in Nat
           /\ Cardinality(Pairs(n)) = Cardinality(rest) + n[w]
<1> DEFINE block == {w} \X (1..n[w])
<1>1. n[w] \in Nat
  OBVIOUS
<1>2. IsFiniteSet(block) /\ Cardinality(block) = n[w]
  BY <1>1, BlockSize
<1>3. rest \cap block = {} /\ rest \cup block = Pairs(n)
  BY PairsSplit, Zenon
<1> HIDE DEF block
<1>4. /\ IsFiniteSet(rest \cup block)
      /\ Cardinality(rest \cup block) = Cardinality(rest) + Cardinality(block) - Cardinality(rest \cap block)
  BY <1>2, FS_Union, Zenon
<1>5. Cardinality(rest \cap block) = 0
  BY <1>3, FS_EmptySet, Zenon
<1>6. Cardinality(rest) \in Nat
  BY FS_CardinalityType, Zenon
<1>7. /\ IsFiniteSet(Pairs(n))
      /\ Cardinality(Pairs(n)) = Cardinality(rest) + n[w] - 0
  BY <1>2, <1>3, <1>4, <1>5, Zenon
<1> QED BY <1>1, <1>6, <1>7

\* When one worker's count changes, the sum changes by as much.
LEMMA PairsChange ==
    ASSUME NEW W, NEW n \in [W -> Nat], NEW w \in W, NEW m \in [W -> Nat], IsFiniteSet(Pairs(n)),
           DifferAt(n, m, w)
    PROVE  SumFollows(n, m, w)
<1> DEFINE rest == OtherPairs(n, w)
<1>1. m[w] \in Nat /\ n[w] \in Nat
  OBVIOUS
<1>2. IsFiniteSet(rest)
  <2>1. rest \subseteq Pairs(n)
    BY DEF OtherPairs
  <2> QED BY <2>1, FS_Subset, Zenon
<1>3. rest = OtherPairs(m, w)
  BY PairsElsewhere, Zenon
<1> HIDE DEF rest
<1>4. Cardinality(rest) \in Nat /\ Cardinality(Pairs(n)) = Cardinality(rest) + n[w]
  BY <1>2, PairsCount, Zenon DEF rest
<1>5. IsFiniteSet(Pairs(m)) /\ Cardinality(Pairs(m)) = Cardinality(rest) + m[w]
  BY <1>2, <1>3, PairsCount, Zenon
<1> QED BY <1>1, <1>4, <1>5 DEF SumFollows

\* The pairs of nobody.
LEMMA NoPairs ==
    ASSUME NEW W, NEW n \in [W -> Nat], \A w \in W : n[w] = 0
    PROVE  IsFiniteSet(Pairs(n)) /\ Cardinality(Pairs(n)) = 0
<1>1. \A p : p \notin Pairs(n)
  BY PairsOf
<1>2. Pairs(n) = {}
  BY <1>1
<1> QED BY <1>2, FS_EmptySet, Zenon

LEMMA TallyInitially == AnnounceInit => TallyInv
<1> SUFFICES ASSUME AnnounceInit PROVE TallyInv
  OBVIOUS
<1>1. SentBy = [w \in FanWorkers |-> 0] /\ MissedBy = [w \in FanWorkers |-> 0]
  BY DEF AnnounceInit, SentBy, MissedBy
<1>2. Notified = {} /\ Missed = {}
  BY DEF AnnounceInit, Notified, Missed, FailureReason
<1>3. /\ ann \in [state : {"none", "QUEUED", "COMPLETED"}, intended : {ann.intended}, delivered : Nat, failed : Nat]
      /\ ann.delivered = 0 /\ ann.failed = 0 /\ deaths = 0 /\ threw = FALSE
  BY DEF AnnounceInit
<1>4. /\ IsFiniteSet(Pairs(SentBy)) /\ Cardinality(Pairs(SentBy)) = 0
      /\ IsFiniteSet(Pairs(MissedBy)) /\ Cardinality(Pairs(MissedBy)) = 0
  BY <1>1, NoPairs
<1>5. SentBy \in [FanWorkers -> Nat] /\ MissedBy \in [FanWorkers -> Nat]
  BY <1>1
<1>6. IsFiniteSet(Notified) /\ IsFiniteSet(Missed) /\ Cardinality(Notified) = 0 /\ Cardinality(Missed) = 0
  BY <1>2, FS_EmptySet, Zenon
<1>7. deaths \in Nat /\ threw \in BOOLEAN
  BY <1>3
<1>8. /\ ann.delivered + Cardinality(Pairs(SentBy)) = Cardinality(Notified)
      /\ ann.failed + Cardinality(Pairs(MissedBy)) = Cardinality(Missed)
  BY <1>3, <1>4, <1>6
<1>9. /\ ann.delivered + Cardinality(Pairs(SentBy)) <= Cardinality(Notified)
      /\ ann.failed + Cardinality(Pairs(MissedBy)) <= Cardinality(Missed)
  BY <1>3, <1>4, <1>6
<1> QED BY <1>3, <1>4, <1>5, <1>6, <1>7, <1>8, <1>9, Zenon DEF TallyInv

\* A step of one worker: its counts before and after, and what is added to the tallies, keep
\* pace with the notifications and the named misses; a step that loses a count says so.
WorkerMoves(w, a, b) ==
    /\ SentBy' \in [FanWorkers -> Nat] /\ DifferAt(SentBy, SentBy', w)
    /\ MissedBy' \in [FanWorkers -> Nat] /\ DifferAt(MissedBy, MissedBy', w)
    /\ ann' \in [state : {"none", "QUEUED", "COMPLETED"}, intended : {ann'.intended}, delivered : Nat, failed : Nat]
    /\ ann'.delivered = ann.delivered + a /\ ann'.failed = ann.failed + b
    /\ deaths' \in Nat /\ threw' \in BOOLEAN /\ (deaths' = 0 /\ ~threw' => deaths = 0 /\ ~threw)
    /\ IsFiniteSet(Notified') /\ IsFiniteSet(Missed')
    /\ SentBy'[w] + a + Cardinality(Notified) <= SentBy[w] + Cardinality(Notified')
    /\ MissedBy'[w] + b + Cardinality(Missed) <= MissedBy[w] + Cardinality(Missed')
    /\ deaths' = 0 /\ ~threw' =>
           /\ SentBy'[w] + a + Cardinality(Notified) = SentBy[w] + Cardinality(Notified')
           /\ MissedBy'[w] + b + Cardinality(Missed) = MissedBy[w] + Cardinality(Missed')

LEMMA TallyMove ==
    ASSUME TallyInv, NEW w \in FanWorkers, NEW a \in Nat, NEW b \in Nat, WorkerMoves(w, a, b)
    PROVE  TallyInv'
<1>1. /\ SentBy \in [FanWorkers -> Nat] /\ MissedBy \in [FanWorkers -> Nat]
      /\ IsFiniteSet(Pairs(SentBy)) /\ IsFiniteSet(Pairs(MissedBy))
      /\ IsFiniteSet(Notified) /\ IsFiniteSet(Missed)
      /\ ann.delivered \in Nat /\ ann.failed \in Nat
  BY DEF TallyInv
<1>2. /\ SentBy' \in [FanWorkers -> Nat] /\ DifferAt(SentBy, SentBy', w)
      /\ MissedBy' \in [FanWorkers -> Nat] /\ DifferAt(MissedBy, MissedBy', w)
      /\ IsFiniteSet(Notified') /\ IsFiniteSet(Missed')
  BY Zenon DEF WorkerMoves
<1>3. SumFollows(SentBy, SentBy', w)
  BY <1>1, <1>2, PairsChange, Zenon
<1>4. SumFollows(MissedBy, MissedBy', w)
  BY <1>1, <1>2, PairsChange, Zenon
<1>5. /\ Cardinality(Notified) \in Nat /\ Cardinality(Notified') \in Nat
      /\ Cardinality(Missed) \in Nat /\ Cardinality(Missed') \in Nat
  BY <1>1, <1>2, FS_CardinalityType
<1>6. SentBy[w] \in Nat /\ MissedBy[w] \in Nat /\ SentBy'[w] \in Nat /\ MissedBy'[w] \in Nat
  BY <1>1, <1>2
<1>7. /\ ann'.delivered + Cardinality(Pairs(SentBy')) <= Cardinality(Notified')
      /\ ann'.failed + Cardinality(Pairs(MissedBy')) <= Cardinality(Missed')
  BY <1>1, <1>3, <1>4, <1>5, <1>6 DEF TallyInv, WorkerMoves, SumFollows
<1>8. deaths' = 0 /\ ~threw' =>
          /\ ann'.delivered + Cardinality(Pairs(SentBy')) = Cardinality(Notified')
          /\ ann'.failed + Cardinality(Pairs(MissedBy')) = Cardinality(Missed')
  BY <1>1, <1>3, <1>4, <1>5, <1>6 DEF TallyInv, WorkerMoves, SumFollows
<1>9. /\ ann' \in [state : {"none", "QUEUED", "COMPLETED"}, intended : {ann'.intended}, delivered : Nat, failed : Nat]
      /\ deaths' \in Nat /\ threw' \in BOOLEAN
  BY Zenon DEF WorkerMoves
<1> QED BY <1>2, <1>3, <1>4, <1>7, <1>8, <1>9 DEF TallyInv, SumFollows

SentIn(f) == IF f = Idle THEN 0 ELSE f.delivered + IF f.pc = "link" THEN 1 ELSE 0
MissedIn(f) == IF f = Idle THEN 0 ELSE f.failed

\* The counts of the worker that moves, and of the others.
LEMMA WorkerCounts ==
    ASSUME AnnounceInv, NEW w \in FanWorkers, NEW g, fan' = [fan EXCEPT ![w] = g],
           g = Idle \/ g \in FanRecord
    PROVE  /\ SentBy' \in [FanWorkers -> Nat] /\ DifferAt(SentBy, SentBy', w)
           /\ MissedBy' \in [FanWorkers -> Nat] /\ DifferAt(MissedBy, MissedBy', w)
           /\ SentBy'[w] = SentIn(g) /\ MissedBy'[w] = MissedIn(g)
           /\ SentBy[w] = SentIn(fan[w]) /\ MissedBy[w] = MissedIn(fan[w])
           /\ SentIn(g) \in Nat /\ MissedIn(g) \in Nat
           /\ SentIn(fan[w]) \in Nat /\ MissedIn(fan[w]) \in Nat
<1>1. /\ SentBy = [v \in FanWorkers |-> SentIn(fan[v])] /\ MissedBy = [v \in FanWorkers |-> MissedIn(fan[v])]
      /\ SentBy' = [v \in FanWorkers |-> SentIn(fan'[v])] /\ MissedBy' = [v \in FanWorkers |-> MissedIn(fan'[v])]
  BY DEF SentBy, MissedBy, SentIn, MissedIn
<1>2. ASSUME NEW f, f = Idle \/ f \in FanRecord PROVE SentIn(f) \in Nat /\ MissedIn(f) \in Nat
  BY <1>2 DEF SentIn, MissedIn, FanRecord
<1>3. \A v \in FanWorkers : fan[v] = Idle \/ fan[v] \in FanRecord
  BY DEF AnnounceInv, FanTyped
<1>4. fan'[w] = g /\ \A v \in FanWorkers : v # w => fan'[v] = fan[v]
  BY DEF AnnounceInv, FanTyped
<1>5. /\ SentIn(g) \in Nat /\ MissedIn(g) \in Nat
      /\ \A v \in FanWorkers : SentIn(fan[v]) \in Nat /\ MissedIn(fan[v]) \in Nat
  BY <1>2, <1>3
<1>6. \A v \in FanWorkers : SentIn(fan'[v]) \in Nat /\ MissedIn(fan'[v]) \in Nat
  BY <1>4, <1>5
<1> HIDE DEF SentIn, MissedIn
<1> QED BY <1>1, <1>4, <1>5, <1>6 DEF DifferAt

AnnTyped == ann \in [state : {"none", "QUEUED", "COMPLETED"}, intended : {ann.intended}, delivered : Nat, failed : Nat]

\* The same, in terms of what the worker has counted.
LEMMA TallyCounts ==
    ASSUME AnnounceInv, TallyInv, NEW w \in FanWorkers, NEW g, fan' = [fan EXCEPT ![w] = g],
           g = Idle \/ g \in FanRecord, NEW a \in Nat, NEW b \in Nat,
           AnnTyped', ann'.delivered = ann.delivered + a, ann'.failed = ann.failed + b,
           deaths' \in Nat, threw' \in BOOLEAN, deaths' = 0 /\ ~threw' => deaths = 0 /\ ~threw,
           IsFiniteSet(Notified'), IsFiniteSet(Missed'),
           SentIn(g) + a + Cardinality(Notified) <= SentIn(fan[w]) + Cardinality(Notified'),
           MissedIn(g) + b + Cardinality(Missed) <= MissedIn(fan[w]) + Cardinality(Missed'),
           deaths' = 0 /\ ~threw' =>
               /\ SentIn(g) + a + Cardinality(Notified) = SentIn(fan[w]) + Cardinality(Notified')
               /\ MissedIn(g) + b + Cardinality(Missed) = MissedIn(fan[w]) + Cardinality(Missed')
    PROVE  TallyInv'
<1>1. /\ SentBy' \in [FanWorkers -> Nat] /\ DifferAt(SentBy, SentBy', w)
      /\ MissedBy' \in [FanWorkers -> Nat] /\ DifferAt(MissedBy, MissedBy', w)
      /\ SentBy'[w] = SentIn(g) /\ MissedBy'[w] = MissedIn(g)
      /\ SentBy[w] = SentIn(fan[w]) /\ MissedBy[w] = MissedIn(fan[w])
  BY WorkerCounts, Zenon
<1>2. /\ SentBy'[w] + a + Cardinality(Notified) <= SentBy[w] + Cardinality(Notified')
      /\ MissedBy'[w] + b + Cardinality(Missed) <= MissedBy[w] + Cardinality(Missed')
  BY <1>1, Zenon
<1>3. deaths' = 0 /\ ~threw' =>
           /\ SentBy'[w] + a + Cardinality(Notified) = SentBy[w] + Cardinality(Notified')
           /\ MissedBy'[w] + b + Cardinality(Missed) = MissedBy[w] + Cardinality(Missed')
  BY <1>1, Zenon
<1>4. ann' \in [state : {"none", "QUEUED", "COMPLETED"}, intended : {ann'.intended}, delivered : Nat, failed : Nat]
  BY Zenon DEF AnnTyped
<1>5. WorkerMoves(w, a, b)
  BY <1>1, <1>2, <1>3, <1>4, Zenon DEF WorkerMoves
<1> QED BY <1>5, TallyMove, Zenon

LEMMA TallySizes ==
    ASSUME TallyInv
    PROVE  /\ Cardinality(Notified) \in Nat /\ Cardinality(Missed) \in Nat
           /\ IsFiniteSet(Notified) /\ IsFiniteSet(Missed)
           /\ AnnTyped /\ ann.delivered \in Nat /\ ann.failed \in Nat /\ deaths \in Nat /\ threw \in BOOLEAN
BY FS_CardinalityType DEF TallyInv, AnnTyped

LEMMA CountsTyped ==
    ASSUME NEW f, f = Idle \/ f \in FanRecord
    PROVE  SentIn(f) \in Nat /\ MissedIn(f) \in Nat
BY DEF SentIn, MissedIn, FanRecord

\* A step that neither notifies nor misses anybody and loses no count.
LEMMA TallySame ==
    ASSUME AnnounceInv, TallyInv, NEW w \in FanWorkers, NEW g, fan' = [fan EXCEPT ![w] = g],
           g = Idle \/ g \in FanRecord, SentIn(g) = SentIn(fan[w]), MissedIn(g) = MissedIn(fan[w]),
           Notified' = Notified, Missed' = Missed, UNCHANGED <<ann, deaths, threw>>
    PROVE  TallyInv'
<1>1. /\ IsFiniteSet(Notified') /\ IsFiniteSet(Missed') /\ AnnTyped' /\ deaths' \in Nat /\ threw' \in BOOLEAN
      /\ deaths' = 0 /\ ~threw' => deaths = 0 /\ ~threw
  BY TallySizes, Zenon DEF AnnTyped
<1>2. ann'.delivered = ann.delivered + 0 /\ ann'.failed = ann.failed + 0 /\ 0 \in Nat
  BY TallySizes
<1>3. /\ SentIn(g) \in Nat /\ MissedIn(g) \in Nat
      /\ Cardinality(Notified) \in Nat /\ Cardinality(Missed) \in Nat
  BY CountsTyped, TallySizes, Zenon
<1>4. /\ SentIn(g) + 0 + Cardinality(Notified) = SentIn(fan[w]) + Cardinality(Notified')
      /\ MissedIn(g) + 0 + Cardinality(Missed) = MissedIn(fan[w]) + Cardinality(Missed')
      /\ SentIn(g) + 0 + Cardinality(Notified) <= SentIn(fan[w]) + Cardinality(Notified')
      /\ MissedIn(g) + 0 + Cardinality(Missed) <= MissedIn(fan[w]) + Cardinality(Missed')
  BY <1>3
<1> QED BY <1>1, <1>2, <1>4, TallyCounts, Zenon

\* A worker that dies or throws loses its counts.
LEMMA TallyLost ==
    ASSUME AnnounceInv, TallyInv, NEW w \in FanWorkers, fan' = [fan EXCEPT ![w] = Idle],
           Notified' = Notified, Missed' = Missed, UNCHANGED ann, deaths' \in Nat, threw' \in BOOLEAN,
           deaths' # 0 \/ threw'
    PROVE  TallyInv'
<1>1. IsFiniteSet(Notified') /\ IsFiniteSet(Missed') /\ AnnTyped'
  BY TallySizes, Zenon DEF AnnTyped
<1>2. ann'.delivered = ann.delivered + 0 /\ ann'.failed = ann.failed + 0 /\ 0 \in Nat
  BY TallySizes
<1>3. SentIn(Idle) = 0 /\ MissedIn(Idle) = 0
  BY DEF SentIn, MissedIn
<1>4. fan[w] = Idle \/ fan[w] \in FanRecord
  BY DEF AnnounceInv, FanTyped
<1>5. /\ SentIn(fan[w]) \in Nat /\ MissedIn(fan[w]) \in Nat
      /\ Cardinality(Notified) \in Nat /\ Cardinality(Missed) \in Nat
  BY <1>4, CountsTyped, TallySizes, Zenon
<1>6. /\ SentIn(Idle) + 0 + Cardinality(Notified) <= SentIn(fan[w]) + Cardinality(Notified')
      /\ MissedIn(Idle) + 0 + Cardinality(Missed) <= MissedIn(fan[w]) + Cardinality(Missed')
  BY <1>3, <1>5
<1> QED BY <1>1, <1>2, <1>6, TallyCounts, Zenon

\* Which recipients are missed depends on the rows alone, who is notified on the notes.
LEMMA SameMissed ==
    ASSUME AnnounceInv, NEW a \in Recipients, NEW row, rows' = [rows EXCEPT ![a] = row],
           row \notin FailureReason, rows[a] \notin FailureReason
    PROVE  Missed' = Missed
BY DEF Missed, AnnounceInv, FanTyped, Recipients

LEMMA TallyFanOut ==
    ASSUME AnnounceInv, TallyInv, NEW w \in FanWorkers, FanOut(w) PROVE TallyInv'
<1> DEFINE f == [pc |-> "next", left |-> Candidates, at |-> Nobody, delivered |-> 0, failed |-> 0]
<1>1. /\ fan' = [fan EXCEPT ![w] = f] /\ fan[w] = Idle
      /\ Notified' = Notified /\ Missed' = Missed /\ UNCHANGED <<ann, deaths, threw>>
  BY DEF FanOut, Notified, Missed
<1>2. f \in FanRecord /\ f # Idle /\ SentIn(f) = 0 /\ MissedIn(f) = 0
  BY CandidatesReached DEF FanRecord, SentIn, MissedIn, Idle
<1>3. SentIn(Idle) = 0 /\ MissedIn(Idle) = 0
  BY DEF SentIn, MissedIn
<1> HIDE DEF f
<1> QED BY <1>1, <1>2, <1>3, TallySame

LEMMA TallyDies ==
    ASSUME AnnounceInv, TallyInv, NEW w \in FanWorkers, WorkerDies(w) \/ NotifyFails(w) PROVE TallyInv'
<1>1. CASE WorkerDies(w)
  <2>1. deaths \in Nat /\ threw \in BOOLEAN
    BY DEF TallyInv
  <2>2. /\ fan' = [fan EXCEPT ![w] = Idle] /\ Notified' = Notified /\ Missed' = Missed
        /\ ann' = ann /\ deaths' = deaths + 1 /\ threw' = threw
    BY <1>1 DEF WorkerDies, Notified, Missed
  <2>3. deaths' \in Nat /\ deaths' # 0
    BY <2>1, <2>2
  <2> QED BY <2>1, <2>2, <2>3, TallyLost
<1>2. CASE NotifyFails(w)
  <2>1. deaths \in Nat
    BY DEF TallyInv
  <2>2. /\ fan' = [fan EXCEPT ![w] = Idle] /\ notes' = notes /\ ann' = ann /\ deaths' = deaths /\ threw' = TRUE
        /\ rows' = rows \/ rows' = [rows EXCEPT ![fan[w].at] = "none"]
        /\ Serving(w)
    BY <1>2 DEF NotifyFails, Serving
  <2>3. Notified' = Notified
    BY <2>2 DEF Notified
  <2>4. fan[w].at \in Recipients /\ rows[fan[w].at] \notin FailureReason /\ "none" \notin FailureReason
    BY <2>2 DEF AnnounceInv, ServedIsOwned, Recipients, FailureReason
  <2>5. Missed' = Missed
    <3>1. CASE rows' = rows
      BY <3>1 DEF Missed
    <3>2. CASE rows' = [rows EXCEPT ![fan[w].at] = "none"]
      BY <2>4, <3>2, SameMissed
    <3> QED BY <2>2, <3>1, <3>2
  <2> QED BY <2>1, <2>2, <2>3, <2>5, TallyLost
<1> QED BY <1>1, <1>2

LEMMA TallyLink ==
    ASSUME AnnounceInv, TallyInv, NEW w \in FanWorkers, Link(w) PROVE TallyInv'
<1> DEFINE f == fan[w]
           d == f.delivered + 1
           g == [f EXCEPT !.pc = "next", !.delivered = d]
<1>1. /\ f \in FanRecord /\ f.pc = "link" /\ f # Idle /\ Serving(w) /\ notes' = notes
      /\ fan' = [fan EXCEPT ![w] = g] /\ rows' = [rows EXCEPT ![f.at] = "linked"]
      /\ UNCHANGED <<ann, deaths, threw>>
  BY DEF Link, AnnounceInv, FanTyped, Serving
<1>2. f.at \in Recipients /\ rows[f.at] \notin FailureReason /\ "linked" \notin FailureReason
  BY <1>1 DEF AnnounceInv, ServedIsOwned, Recipients, FailureReason
<1>3. Notified' = Notified /\ Missed' = Missed
  BY <1>1, <1>2, SameMissed DEF Notified
<1>4. g \in FanRecord /\ SentIn(g) = SentIn(f) /\ MissedIn(g) = MissedIn(f)
  <2>1. d \in Nat /\ f.delivered \in Nat /\ d = f.delivered + 1
    BY <1>1 DEF FanRecord
  <2> HIDE DEF f, d
  <2>2. g \in FanRecord /\ g.pc = "next" /\ g.delivered = d /\ g.failed = f.failed
    BY <1>1, <2>1 DEF FanRecord
  <2> HIDE DEF g
  <2>3. g # Idle
    BY <2>2 DEF FanRecord, Idle
  <2> QED BY <1>1, <2>1, <2>2, <2>3 DEF SentIn, MissedIn
<1> HIDE DEF g
<1> QED BY <1>1, <1>3, <1>4, TallySame

LEMMA TallyNotify ==
    ASSUME AnnounceInv, TallyInv, NEW w \in FanWorkers, Notify(w) PROVE TallyInv'
<1> DEFINE f == fan[w]
           g == [f EXCEPT !.pc = "link"]
           a == f.at
<1>1. /\ f \in FanRecord /\ f.pc = "notify" /\ f # Idle /\ Serving(w)
      /\ fan' = [fan EXCEPT ![w] = g] /\ rows' = rows /\ notes' = [notes EXCEPT ![a] = @ + 1]
      /\ UNCHANGED <<ann, deaths, threw>>
  BY DEF Notify, AnnounceInv, FanTyped, Serving
<1>2. a \in Admins /\ notes[a] = 0 /\ notes \in [Admins -> Nat]
  BY <1>1 DEF AnnounceInv, ServedIsOwned, FanTyped
<1>3. Notified' = Notified \cup {a} /\ a \notin Notified /\ Missed' = Missed
  BY <1>1, <1>2 DEF Notified, Missed
<1>4. g \in FanRecord /\ SentIn(g) = SentIn(f) + 1 /\ MissedIn(g) = MissedIn(f)
  <2> HIDE DEF f
  <2>1. g \in FanRecord /\ g.pc = "link" /\ g.delivered = f.delivered /\ g.failed = f.failed /\ f.delivered \in Nat
    BY <1>1 DEF FanRecord
  <2> HIDE DEF g
  <2>2. g # Idle
    BY <2>1 DEF FanRecord, Idle
  <2> QED BY <1>1, <2>1, <2>2 DEF SentIn, MissedIn
<1>5. /\ IsFiniteSet(Notified') /\ Cardinality(Notified') = Cardinality(Notified) + 1
      /\ IsFiniteSet(Missed') /\ Cardinality(Missed') = Cardinality(Missed)
  BY <1>3, TallySizes, FS_AddElement
<1>6. AnnTyped' /\ deaths' \in Nat /\ threw' \in BOOLEAN /\ (deaths' = 0 /\ ~threw' => deaths = 0 /\ ~threw)
  BY <1>1, TallySizes, Zenon DEF AnnTyped
<1>7. ann'.delivered = ann.delivered + 0 /\ ann'.failed = ann.failed + 0 /\ 0 \in Nat
  BY <1>1, TallySizes
<1> HIDE DEF f, g, a
<1>8. /\ SentIn(f) \in Nat /\ MissedIn(f) \in Nat
      /\ Cardinality(Notified) \in Nat /\ Cardinality(Missed) \in Nat
  BY <1>1, CountsTyped, TallySizes, Zenon
<1>9. /\ SentIn(g) + 0 + Cardinality(Notified) = SentIn(f) + Cardinality(Notified')
      /\ MissedIn(g) + 0 + Cardinality(Missed) = MissedIn(f) + Cardinality(Missed')
      /\ SentIn(g) + 0 + Cardinality(Notified) <= SentIn(f) + Cardinality(Notified')
      /\ MissedIn(g) + 0 + Cardinality(Missed) <= MissedIn(f) + Cardinality(Missed')
  BY <1>4, <1>5, <1>8
<1> QED BY <1>1, <1>4, <1>5, <1>6, <1>7, <1>9, TallyCounts, Zenon DEF f

LEMMA TallyComplete ==
    ASSUME AnnounceInv, TallyInv, NEW w \in FanWorkers, Complete(w) PROVE TallyInv'
<1> DEFINE f == fan[w]
           d == f.delivered
           m == f.failed
           D == ann.delivered + d
           M == ann.failed + m
<1>1. /\ f \in FanRecord /\ f.pc = "next" /\ f # Idle /\ fan' = [fan EXCEPT ![w] = Idle]
      /\ Notified' = Notified /\ Missed' = Missed /\ UNCHANGED <<deaths, threw>>
      /\ ann' = [ann EXCEPT !.state = "COMPLETED", !.delivered = D, !.failed = M]
  BY DEF Complete, AnnounceInv, FanTyped, Notified, Missed
<1>2. d \in Nat /\ m \in Nat /\ SentIn(f) = d /\ MissedIn(f) = m /\ SentIn(Idle) = 0 /\ MissedIn(Idle) = 0
  BY <1>1 DEF FanRecord, SentIn, MissedIn
<1>3. D = ann.delivered + d /\ M = ann.failed + m
  OBVIOUS
<1> HIDE DEF d, m, D, M
<1>4. D \in Nat /\ M \in Nat
  BY <1>2, <1>3, TallySizes
<1>5. AnnTyped' /\ ann'.delivered = D /\ ann'.failed = M
  BY <1>1, <1>4, TallySizes DEF AnnTyped
<1>6. /\ IsFiniteSet(Notified') /\ IsFiniteSet(Missed') /\ deaths' \in Nat /\ threw' \in BOOLEAN
      /\ deaths' = 0 /\ ~threw' => deaths = 0 /\ ~threw
  BY <1>1, TallySizes, Zenon
<1> HIDE DEF f
<1>7. /\ SentIn(Idle) + d + Cardinality(Notified) = SentIn(f) + Cardinality(Notified')
      /\ MissedIn(Idle) + m + Cardinality(Missed) = MissedIn(f) + Cardinality(Missed')
      /\ SentIn(Idle) + d + Cardinality(Notified) <= SentIn(f) + Cardinality(Notified')
      /\ MissedIn(Idle) + m + Cardinality(Missed) <= MissedIn(f) + Cardinality(Missed')
  BY <1>1, <1>2, TallySizes
<1> QED BY <1>1, <1>2, <1>3, <1>5, <1>6, <1>7, TallyCounts, Zenon DEF f

LEMMA TallyDeliver ==
    ASSUME AnnounceInv, TallyInv, NEW w \in FanWorkers, NEW c \in Candidate, DeliverTo(w, c)
    PROVE  TallyInv'
<1> DEFINE f == fan[w]
           rest == f.left \ {c}
<1>1. /\ f \in FanRecord /\ f.pc = "next" /\ f # Idle /\ c.to \in Recipients
      /\ notes' = notes /\ UNCHANGED <<ann, deaths, threw>>
  BY DEF DeliverTo, AnnounceInv, FanTyped, Candidate, Recipients
<1>2. Notified' = Notified
  BY <1>1 DEF Notified
<1>3. rest \in SUBSET Candidate /\ f.failed \in Nat
  BY <1>1 DEF FanRecord
<1>4. CASE rows[c.to] # "none"
  <2> DEFINE g == [f EXCEPT !.left = rest]
  <2>1. fan' = [fan EXCEPT ![w] = g] /\ Missed' = Missed
    BY <1>4 DEF DeliverTo, Missed
  <2> HIDE DEF f, rest
  <2>2. g \in FanRecord /\ g.pc = "next" /\ g.delivered = f.delivered /\ g.failed = f.failed
    BY <1>1, <1>3 DEF FanRecord
  <2> HIDE DEF g
  <2>3. g # Idle
    BY <2>2 DEF FanRecord, Idle
  <2>4. SentIn(g) = SentIn(f) /\ MissedIn(g) = MissedIn(f)
    BY <1>1, <2>2, <2>3 DEF SentIn, MissedIn
  <2> QED BY <1>1, <1>2, <2>1, <2>2, <2>4, TallySame DEF f
<1>5. CASE rows[c.to] = "none" /\ c.reason = Reached
  <2> DEFINE g == [f EXCEPT !.left = rest, !.at = c.to, !.pc = "notify"]
  <2>1. fan' = [fan EXCEPT ![w].left = rest, ![w].at = c.to, ![w].pc = "notify", ![w].failed = @]
    BY <1>5 DEF DeliverTo
  <2>2. rows' = [rows EXCEPT ![c.to] = "bare"]
    BY <1>5 DEF DeliverTo
  <2>3. Missed' = Missed
    <3>1. "bare" \notin FailureReason /\ rows[c.to] \notin FailureReason
      BY <1>5 DEF FailureReason
    <3> QED BY <1>1, <2>2, <3>1, SameMissed
  <2>4. fan' = [fan EXCEPT ![w] = g]
    BY <1>1, <2>1 DEF AnnounceInv, FanTyped, FanRecord
  <2> HIDE DEF f, rest
  <2>5. g \in FanRecord /\ g.pc = "notify" /\ g.delivered = f.delivered /\ g.failed = f.failed
    BY <1>1, <1>3 DEF FanRecord
  <2> HIDE DEF g
  <2>6. g # Idle
    BY <2>5 DEF FanRecord, Idle
  <2>7. SentIn(g) = SentIn(f) /\ MissedIn(g) = MissedIn(f)
    BY <1>1, <2>5, <2>6 DEF SentIn, MissedIn
  <2> QED BY <1>1, <1>2, <2>3, <2>4, <2>5, <2>7, TallySame DEF f
<1>6. CASE rows[c.to] = "none" /\ c.reason # Reached
  <2> DEFINE more == f.failed + 1
             g == [f EXCEPT !.left = rest, !.at = c.to, !.pc = "next", !.failed = more]
             r == c.to
  <2>1. fan' = [fan EXCEPT ![w] = g]
    BY <1>6 DEF DeliverTo
  <2>2. rows' = [rows EXCEPT ![r] = c.reason] /\ c.reason \in FailureReason
    BY <1>6 DEF DeliverTo, Candidate
  <2>3. more \in Nat /\ more = f.failed + 1
    BY <1>3
  <2>4. Missed' = Missed \cup {r} /\ r \notin Missed
    BY <1>1, <1>6, <2>2 DEF Missed, AnnounceInv, FanTyped, Recipients, FailureReason
  <2> HIDE DEF f, rest, more
  <2>5. g \in FanRecord /\ g.pc = "next" /\ g.delivered = f.delivered /\ g.failed = more
    BY <1>1, <1>3, <2>3 DEF FanRecord
  <2> HIDE DEF g, r
  <2>6. g # Idle
    BY <2>5 DEF FanRecord, Idle
  <2>7. SentIn(g) = SentIn(f) /\ MissedIn(g) = MissedIn(f) + 1
    BY <1>1, <2>3, <2>5, <2>6 DEF SentIn, MissedIn
  <2>8. /\ IsFiniteSet(Missed') /\ Cardinality(Missed') = Cardinality(Missed) + 1
        /\ IsFiniteSet(Notified') /\ Cardinality(Notified') = Cardinality(Notified)
    BY <1>2, <2>4, TallySizes, FS_AddElement
  <2>9. AnnTyped' /\ deaths' \in Nat /\ threw' \in BOOLEAN /\ (deaths' = 0 /\ ~threw' => deaths = 0 /\ ~threw)
    BY <1>1, TallySizes, Zenon DEF AnnTyped
  <2>10. ann'.delivered = ann.delivered + 0 /\ ann'.failed = ann.failed + 0 /\ 0 \in Nat
    BY <1>1, TallySizes
  <2>11. /\ SentIn(f) \in Nat /\ MissedIn(f) \in Nat
         /\ Cardinality(Notified) \in Nat /\ Cardinality(Missed) \in Nat
    BY <1>1, CountsTyped, TallySizes, Zenon
  <2>12. /\ SentIn(g) + 0 + Cardinality(Notified) = SentIn(f) + Cardinality(Notified')
         /\ MissedIn(g) + 0 + Cardinality(Missed) = MissedIn(f) + Cardinality(Missed')
         /\ SentIn(g) + 0 + Cardinality(Notified) <= SentIn(f) + Cardinality(Notified')
         /\ MissedIn(g) + 0 + Cardinality(Missed) <= MissedIn(f) + Cardinality(Missed')
    BY <2>7, <2>8, <2>11
  <2> QED BY <2>1, <2>5, <2>8, <2>9, <2>10, <2>12, TallyCounts, Zenon DEF f
<1> QED BY <1>4, <1>5, <1>6

\* A step no worker takes.
LEMMA TallyQuiet ==
    ASSUME TallyInv, UNCHANGED <<rows, notes, fan, deaths, threw>>, AnnTyped',
           ann'.delivered = ann.delivered, ann'.failed = ann.failed
    PROVE  TallyInv'
<1>1. SentBy' = SentBy /\ MissedBy' = MissedBy /\ Notified' = Notified /\ Missed' = Missed
  BY Zenon DEF SentBy, MissedBy, Notified, Missed
<1> QED BY <1>1, Zenon DEF TallyInv, AnnTyped

LEMMA TallyStep == AnnounceInv /\ TallyInv /\ [AnnounceNext]_announceVars => TallyInv'
<1> SUFFICES ASSUME AnnounceInv, TallyInv, [AnnounceNext]_announceVars PROVE TallyInv'
  OBVIOUS
<1>1. ASSUME Change \/ HandOutAgain \/ UNCHANGED announceVars PROVE TallyInv'
  <2>1. UNCHANGED <<rows, notes, fan, deaths, threw, ann>>
    BY <1>1, Zenon DEF Change, HandOutAgain, announceVars
  <2>2. AnnTyped'
    BY <2>1, TallySizes, Zenon DEF AnnTyped
  <2> QED BY <2>1, <2>2, TallyQuiet, Zenon
<1>2. CASE Compose
  <2> DEFINE n == Cardinality({c \in Candidates : c.reason = Reached})
  <2>1. UNCHANGED <<rows, notes, fan, deaths, threw>> /\ ann' = [ann EXCEPT !.state = "QUEUED", !.intended = n]
    BY <1>2, Zenon DEF Compose
  <2> HIDE DEF n
  <2>2. AnnTyped' /\ ann'.delivered = ann.delivered /\ ann'.failed = ann.failed
    BY <2>1, TallySizes DEF AnnTyped
  <2> QED BY <2>1, <2>2, TallyQuiet, Zenon
<1>3. ASSUME NEW w \in FanWorkers,
             FanOut(w) \/ Notify(w) \/ NotifyFails(w) \/ Link(w) \/ Complete(w) \/ WorkerDies(w)
      PROVE  TallyInv'
  BY <1>3, TallyFanOut, TallyNotify, TallyDies, TallyLink, TallyComplete
<1>4. ASSUME NEW w \in FanWorkers, NEW c \in Candidate, DeliverTo(w, c) PROVE TallyInv'
  BY <1>4, TallyDeliver
<1> QED BY <1>1, <1>2, <1>3, <1>4 DEF AnnounceNext

\* However often the fan-out job is handed out, the delivered and failed tallies of an
\* announcement never exceed the notifications and the named misses, and equal them once
\* every worker has run to its end, none having died or thrown.
THEOREM TalliesAreExact == AnnounceSpec => []TallyIsExact
<1>1. TallyInv => TallyIsExact
  <2> SUFFICES ASSUME TallyInv PROVE TallyIsExact
    OBVIOUS
  <2>1. /\ SentBy \in [FanWorkers -> Nat] /\ MissedBy \in [FanWorkers -> Nat]
        /\ Cardinality(Pairs(SentBy)) \in Nat /\ Cardinality(Pairs(MissedBy)) \in Nat
    BY FS_CardinalityType DEF TallyInv
  <2>2. ann.delivered <= Cardinality(Notified) /\ ann.failed <= Cardinality(Missed)
    BY <2>1, TallySizes DEF TallyInv
  <2>3. ASSUME deaths = 0, ~threw, \A w \in FanWorkers : fan[w] = Idle
        PROVE  ann.delivered = Cardinality(Notified) /\ ann.failed = Cardinality(Missed)
    <3>1. \A w \in FanWorkers : SentBy[w] = 0 /\ MissedBy[w] = 0
      BY <2>3 DEF SentBy, MissedBy
    <3>2. Cardinality(Pairs(SentBy)) = 0 /\ Cardinality(Pairs(MissedBy)) = 0
      BY <2>1, <3>1, NoPairs
    <3>3. /\ ann.delivered + Cardinality(Pairs(SentBy)) = Cardinality(Notified)
          /\ ann.failed + Cardinality(Pairs(MissedBy)) = Cardinality(Missed)
      BY <2>3, Zenon DEF TallyInv
    <3> QED BY <3>2, <3>3, TallySizes
  <2> QED BY <2>2, <2>3, Zenon DEF TallyIsExact
<1> QED BY <1>1, AnnounceInitially, AnnounceStep, TallyInitially, TallyStep, PTL DEF AnnounceSpec

-----------------------------------------------------------------------------
(* PricedHaul.                                                              *)

(***************************************************************************)
(* Who answers to whom.  A name is taken once and its parent never changes *)
(* after; so the transporter a routing call picked for the client's fuel   *)
(* company is still that company's when the order is routed to it, and     *)
(* the regions it serves can only have come from there.                    *)
(***************************************************************************)
Rates == [unit : Nat, quantity : Nat, service : Nat, tax : Nat]

CompanyRecord ==
    [type : {"NONE", "FUEL", "TRANSPORT"}, parent : Companies \cup {None}, active : BOOLEAN,
     served : SUBSET Regions, rates : RateLists \cup {{}}, admin : Companies \cup {None},
     regionsFrom : Companies \cup {None}]

HaulStatuses == {"NONE", "PENDING_APPROVAL", "APPROVED", "AWAITING_ROUTING", "PENDING_PAYMENT"}

HaulRecord ==
    [status : HaulStatuses, station : Stations \cup {None}, rates : Rates \cup {None},
     shown : Rates \cup {None}, estimate : Nat, approved : Nat, final : Nat,
     hauler : Haulers \cup {None}, fee : Nat, servedThen : SUBSET Regions]

RoutingRecord ==
    [at : {"idle", "picked", "priced"}, from : HaulStatuses, hauler : Haulers \cup {None}, fee : Nat,
     servedThen : SUBSET Regions]

HaulTyped ==
    /\ company \in [Companies -> CompanyRecord]
    /\ tariff \in [price : UnitPrices, config : Configs \cup {None}]
    /\ depot \in [Depots -> [known : BOOLEAN, open : BOOLEAN, supplies : BOOLEAN, km : Kms]]
    /\ haul \in HaulRecord
    /\ routing \in [Routings -> RoutingRecord]

Register ==
    /\ \A c \in Companies :
          /\ company[c].type # "NONE" => company[c].admin = c
          /\ company[c].type = "NONE" => company[c].served = {}
    /\ \A t \in Haulers : company[t].served # {} => company[t].regionsFrom = company[t].parent

OwnTransporter(t) == t \in Haulers /\ company[t].type # "NONE" /\ company[t].parent = Supplier

RoutedToOwn ==
    /\ \A r \in Routings : routing[r].at # "idle" => OwnTransporter(routing[r].hauler)
    /\ haul.hauler # None => OwnTransporter(haul.hauler)

(***************************************************************************)
(* Why the bill holds.  The rates of an order are those the client was     *)
(* shown from the moment it is placed, and the step that bills it derives  *)
(* the price from them and from nothing else.                              *)
(***************************************************************************)
PricedAsShown ==
    /\ haul.shown # None => haul.rates = haul.shown
    /\ haul.status = "PENDING_PAYMENT" /\ haul.shown # None =>
          haul.final = Breakdown(haul.shown, haul.fee)

HaulInv == HaulTyped /\ Register /\ RoutedToOwn /\ PricedAsShown

\* Arithmetic: a sum rounds to the sum of the rounded parts, give or take a cent.
LEMMA RoundedSum ==
    ASSUME NEW x \in Nat, NEW y \in Nat
    PROVE  (x + y + 50) \div 100 - (x + 50) \div 100 - (y + 50) \div 100 \in -1..1
OBVIOUS

LEMMA PercentIsNat ==
    ASSUME NEW x \in Nat, NEW t \in Nat
    PROVE  Percent(x, t) \in Nat
<1>1. x * t \in Nat
  OBVIOUS
<1> QED BY <1>1 DEF Percent

LEMMA PercentOfSum ==
    ASSUME NEW x \in Nat, NEW y \in Nat, NEW t \in Nat
    PROVE  Percent(x + y, t) - Percent(x, t) - Percent(y, t) \in -1..1
<1>1. x * t \in Nat /\ y * t \in Nat /\ (x + y) * t = x * t + y * t
  OBVIOUS
<1> QED BY <1>1, RoundedSum DEF Percent

LEMMA BreakdownIsNat ==
    ASSUME NEW rates \in Rates, NEW fee \in Nat
    PROVE  Breakdown(rates, fee) \in Nat
<1> DEFINE line == rates.unit * rates.quantity
           service == Percent(line, rates.service)
<1>1. line \in Nat /\ rates.service \in Nat /\ rates.tax \in Nat
  BY DEF Rates
<1> HIDE DEF line
<1>2. service \in Nat
  BY <1>1, PercentIsNat
<1> HIDE DEF service
<1>3. line + fee + service \in Nat
  BY <1>1, <1>2
<1>4. Percent(line + fee + service, rates.tax) \in Nat
  BY <1>1, <1>3, PercentIsNat
<1> QED BY <1>3, <1>4 DEF Breakdown, line, service

\* What a fee adds to a price: itself and its tax, give or take a cent.
LEMMA FeeAdds ==
    ASSUME NEW rates \in Rates, NEW fee \in Nat
    PROVE  Breakdown(rates, fee) - EstimateOf(rates)
               \in ((fee + Percent(fee, rates.tax)) - 1)..((fee + Percent(fee, rates.tax)) + 1)
<1> DEFINE line == rates.unit * rates.quantity
           service == Percent(line, rates.service)
           base == line + service
<1>1. line \in Nat /\ rates.service \in Nat /\ rates.tax \in Nat
  BY DEF Rates
<1>2. service \in Nat
  BY <1>1, PercentIsNat
<1>3. base \in Nat /\ line + fee + service = base + fee /\ line + 0 + service = base
  BY <1>1, <1>2
<1>4. /\ Breakdown(rates, fee) = base + fee + Percent(base + fee, rates.tax)
      /\ EstimateOf(rates) = base + Percent(base, rates.tax)
  BY <1>3 DEF Breakdown, EstimateOf
<1> HIDE DEF line, service, base
<1>5. base + fee \in Nat
  BY <1>3
<1>6. /\ Percent(base + fee, rates.tax) \in Nat /\ Percent(base, rates.tax) \in Nat
      /\ Percent(fee, rates.tax) \in Nat
  BY <1>1, <1>3, <1>5, PercentIsNat
<1>7. Percent(base + fee, rates.tax) - Percent(base, rates.tax) - Percent(fee, rates.tax) \in -1..1
  BY <1>1, <1>3, PercentOfSum
<1> QED BY <1>3, <1>4, <1>6, <1>7

\* The nearest depot is at one of the distances, so the fee is a natural number.
LEMMA NearestIsNat ==
    ASSUME HaulTyped, Supplying # {}
    PROVE  NearestKm \in Nat
<1> DEFINE S == {depot[d].km : d \in Supplying}
<1>1. S \subseteq Nat /\ S # {}
  <2>1. ASSUME NEW d \in Supplying PROVE depot[d].km \in Nat
    BY HaulAssumption DEF HaulTyped, Supplying
  <2> QED BY <2>1
<1> HIDE DEF S
<1>2. PICK x \in S : \A y \in S : ~(<<y, x>> \in OpToRel(<, Nat))
  BY <1>1, NatLessThanWellFounded, WFMin, Zenon
<1>3. \A y \in S : x <= y
  <2> SUFFICES ASSUME NEW y \in S PROVE x <= y
    OBVIOUS
  <2>1. ~(y < x)
    BY <1>1, <1>2 DEF OpToRel
  <2> QED BY <1>1, <2>1
<1>4. \A d \in Supplying : x <= depot[d].km
  BY <1>3 DEF S
<1>5. NearestKm \in S
  BY <1>4 DEF NearestKm, S
<1> QED BY <1>1, <1>5

LEMMA FeeIsNat ==
    ASSUME HaulTyped, NEW t \in Haulers, NEW s, Priceable(t, s)
    PROVE  FeeForCompany(t, s) \in Nat
<1> DEFINE rate == CHOOSE r \in RateFor(company[t].rates, s) : TRUE
<1>1. rate \in RateFor(company[t].rates, s)
  BY DEF Priceable
<1>2. rate \in company[t].rates /\ company[t].rates \in RateLists \cup {{}}
  BY <1>1 DEF RateFor, HaulTyped, CompanyRecord, Companies
<1>3. rate.perKm \in Nat /\ rate.minPrice \in Nat
  BY <1>2, HaulAssumption
<1>4. NearestKm \in Nat
  BY NearestIsNat DEF Priceable
<1> HIDE DEF rate
<1>5. NearestKm * rate.perKm \in Nat
  BY <1>3, <1>4
<1> QED BY <1>3, <1>5 DEF FeeForCompany, rate

LEMMA LiveRates ==
    ASSUME HaulTyped, Configured, NEW q \in Quantities
    PROVE  CurrentRates(q) \in Rates
BY HaulAssumption DEF HaulTyped, Configured, CurrentRates, Rates

\* The records of no order and of no routing call.
LEMMA NoHaulShape == NoHaul \in HaulRecord /\ NoHaul.shown = None /\ NoHaul.hauler = None /\ NoHaul.fee = 0
BY DEF NoHaul, HaulRecord, HaulStatuses

LEMMA NotRoutingShape == NotRouting \in RoutingRecord /\ NotRouting.at = "idle"
BY DEF NotRouting, RoutingRecord, HaulStatuses

\* A company that is not there, and one that is new.
LEMMA NoCompanyShape == NoCompany \in CompanyRecord /\ NoCompany.type = "NONE" /\ NoCompany.served = {}
BY DEF NoCompany, CompanyRecord

LEMMA FuelCompanyShape ==
    ASSUME NEW c \in Companies
    PROVE  /\ Company("FUEL", None, c) \in CompanyRecord
           /\ Company("FUEL", None, c).type = "FUEL" /\ Company("FUEL", None, c).admin = c
           /\ Company("FUEL", None, c).served = {}
BY DEF Company, CompanyRecord

LEMMA NewTransporterShape ==
    ASSUME NEW f \in Companies, NEW a \in Companies
    PROVE  /\ NewTransporter(f, a) \in CompanyRecord
           /\ NewTransporter(f, a).type = "TRANSPORT" /\ NewTransporter(f, a).parent = f
           /\ NewTransporter(f, a).admin = a /\ NewTransporter(f, a).served = {}
BY DEF NewTransporter, Company, CompanyRecord

LEMMA HaulInitially == HaulInit => HaulInv
<1> SUFFICES ASSUME HaulInit PROVE HaulInv
  OBVIOUS
<1>1. PICK rates \in RateLists, rivals \in {{}, Rivals} :
         company = [c \in Companies |->
            CASE c = Supplier -> Company("FUEL", None, Supplier)
              [] c = Partner  -> [NewTransporter(Supplier, Partner) EXCEPT
                                    !.served = {RegionOf[LegacyStation]}, !.rates = rates,
                                    !.regionsFrom = Supplier]
              [] c \in rivals -> Company("FUEL", None, c)
              [] OTHER        -> NoCompany]
  BY Zenon DEF HaulInit
<1> DEFINE partner == [NewTransporter(Supplier, Partner) EXCEPT
                          !.served = {RegionOf[LegacyStation]}, !.rates = rates, !.regionsFrom = Supplier]
<1>2. RegionOf[LegacyStation] \in Regions /\ Supplier # Partner /\ Partner \notin rivals /\ Supplier \notin rivals
  BY HaulAssumption
<1>3. ASSUME NEW c \in Companies
      PROVE  \/ c = Supplier /\ company[c] = Company("FUEL", None, c)
             \/ c = Partner /\ company[c] = partner
             \/ c \in Rivals /\ company[c] = Company("FUEL", None, c)
             \/ company[c] = NoCompany
  BY <1>1, <1>2
<1>4. /\ partner \in CompanyRecord /\ partner.type = "TRANSPORT" /\ partner.admin = Partner
      /\ partner.regionsFrom = partner.parent
  <2> DEFINE bare == NewTransporter(Supplier, Partner)
  <2>1. bare \in CompanyRecord /\ bare.type = "TRANSPORT" /\ bare.admin = Partner /\ bare.parent = Supplier
    BY NewTransporterShape, HaulAssumption DEF Companies
  <2> HIDE DEF bare
  <2>2. partner = [bare EXCEPT !.served = {RegionOf[LegacyStation]}, !.rates = rates, !.regionsFrom = Supplier]
    BY DEF bare
  <2> HIDE DEF partner
  <2> QED BY <1>2, <2>1, <2>2 DEF CompanyRecord, Companies
<1> HIDE DEF partner
<1>5. ASSUME NEW c \in Companies
      PROVE  /\ company[c] \in CompanyRecord
             /\ company[c].type # "NONE" => company[c].admin = c
             /\ company[c].type = "NONE" => company[c].served = {}
             /\ company[c].served # {} => company[c].regionsFrom = company[c].parent
  BY <1>3, <1>4, FuelCompanyShape, NoCompanyShape
<1>6. company \in [Companies -> CompanyRecord]
  BY <1>1, <1>5
<1>7. tariff \in [price : UnitPrices, config : Configs \cup {None}]
  <2>1. tariff \in [price : {CHOOSE p \in UnitPrices : TRUE}, config : Configs \cup {None}]
    BY Zenon DEF HaulInit
  <2>2. (CHOOSE p \in UnitPrices : TRUE) \in UnitPrices
    BY HaulAssumption
  <2> HIDE DEF HaulInit
  <2> QED BY <2>1, <2>2
<1>8. depot \in [Depots -> [known : BOOLEAN, open : BOOLEAN, supplies : BOOLEAN, km : Kms]]
  <2>1. (CHOOSE km \in Kms : TRUE) \in Kms
    BY HaulAssumption
  <2>2. PICK stock \in BOOLEAN :
           depot = [d \in Depots |-> [known |-> stock, open |-> stock, supplies |-> stock,
                                      km |-> CHOOSE km \in Kms : TRUE]]
    BY Zenon DEF HaulInit
  <2> QED BY <2>1, <2>2
<1>9. haul \in HaulRecord /\ haul.shown = None /\ haul.hauler = None
  <2>1. CASE haul = NoHaul
    BY <2>1, NoHaulShape
  <2>2. ASSUME NEW e \in Overrides,
               haul = [NoHaul EXCEPT !.status = "PENDING_APPROVAL", !.station = LegacyStation, !.estimate = e]
        PROVE  haul \in HaulRecord /\ haul.shown = None /\ haul.hauler = None
    <3>1. e \in Nat /\ LegacyStation \in Stations
      BY HaulAssumption
    <3> QED BY <2>2, <3>1, NoHaulShape DEF HaulRecord, HaulStatuses
  <2> QED BY <2>1, <2>2, Zenon DEF HaulInit
<1>10. routing \in [Routings -> RoutingRecord] /\ \A r \in Routings : routing[r].at = "idle"
  <2>1. routing = [r \in Routings |-> NotRouting]
    BY Zenon DEF HaulInit
  <2> QED BY <2>1, NotRoutingShape
<1>11. HaulTyped
  BY <1>6, <1>7, <1>8, <1>9, <1>10 DEF HaulTyped
<1>12. Register /\ RoutedToOwn /\ PricedAsShown
  BY <1>5, <1>9, <1>10 DEF Register, RoutedToOwn, PricedAsShown, Companies
<1> QED BY <1>11, <1>12 DEF HaulInv

\* A write of one company: it keeps its parent and its type, or its name was free.
LEMMA CompanyWrite ==
    ASSUME HaulInv, NEW c \in Companies, NEW new \in CompanyRecord,
           company' = [company EXCEPT ![c] = new], UNCHANGED <<tariff, depot, haul, routing>>,
           new.type # "NONE" => new.admin = c,
           new.type = "NONE" => new.served = {},
           c \in Haulers /\ new.served # {} => new.regionsFrom = new.parent,
           company[c].type # "NONE" => new.type = company[c].type /\ new.parent = company[c].parent
    PROVE  HaulInv'
<1>1. /\ company'[c] = new /\ \A d \in Companies : d # c => company'[d] = company[d]
      /\ Haulers \subseteq Companies
  BY DEF HaulInv, HaulTyped, Companies
<1>2. HaulTyped'
  BY DEF HaulInv, HaulTyped
<1>3. Register'
  BY <1>1 DEF HaulInv, Register
<1>4. ASSUME NEW t, OwnTransporter(t) PROVE OwnTransporter(t)'
  BY <1>1, <1>4 DEF OwnTransporter
<1>5. RoutedToOwn'
  BY <1>4 DEF HaulInv, RoutedToOwn
<1>6. PricedAsShown'
  BY DEF HaulInv, PricedAsShown
<1> QED BY <1>2, <1>3, <1>5, <1>6 DEF HaulInv

LEMMA CompanyStep ==
    ASSUME HaulInv,
           \/ \E f \in Rivals : CreateFuelCompany(f)
           \/ \E f \in {Supplier} \cup Rivals, t \in Haulers :
                \/ CreateTransporter(f, t) \/ OnboardTransporter(f, t)
                \/ \E regions \in SUBSET Regions : AssignRegions(f, t, regions)
           \/ \E c \in Companies : SetStatus(c)
           \/ \E t \in Haulers, rates \in RateLists : SetDeliveryRates(t, rates)
    PROVE  HaulInv'
<1> USE DEF Companies
<1>1. \A c \in Companies : company[c] \in CompanyRecord
  BY DEF HaulInv, HaulTyped
<1>2. ASSUME NEW f \in Rivals, CreateFuelCompany(f) PROVE HaulInv'
  <2> DEFINE new == Company("FUEL", None, f)
  <2>1. /\ new \in CompanyRecord /\ new.type = "FUEL" /\ new.admin = f /\ new.served = {}
        /\ company[f].type = "NONE"
    BY <1>2 DEF Company, CompanyRecord, CreateFuelCompany, NoCompany
  <2>2. company' = [company EXCEPT ![f] = new] /\ UNCHANGED <<tariff, depot, haul, routing>>
    BY <1>2 DEF CreateFuelCompany
  <2> HIDE DEF new
  <2> QED BY <2>1, <2>2, CompanyWrite
<1>3. ASSUME NEW f \in {Supplier} \cup Rivals, NEW t \in Haulers,
             CreateTransporter(f, t) \/ OnboardTransporter(f, t)
      PROVE HaulInv'
  <2>1. company[t].type = "NONE" /\ UNCHANGED <<tariff, depot, haul, routing>>
    BY <1>3 DEF CreateTransporter, OnboardTransporter, NoCompany
  <2>2. CASE OnboardTransporter(f, t)
    <3> DEFINE new == NewTransporter(f, t)
    <3>1. company' = [company EXCEPT ![t] = new]
      BY <2>2 DEF OnboardTransporter
    <3>2. new \in CompanyRecord /\ new.type = "TRANSPORT" /\ new.admin = t /\ new.served = {}
      BY NewTransporterShape
    <3> HIDE DEF new
    <3> QED BY <2>1, <3>1, <3>2, CompanyWrite
  <2>3. CASE CreateTransporter(f, t)
    <3> DEFINE inserted == NewTransporter(f, f)
               new == [inserted EXCEPT !.admin = t]
    <3>1. company' = [company EXCEPT ![t] = new]
      BY <2>3 DEF CreateTransporter
    <3>2. inserted \in CompanyRecord /\ inserted.type = "TRANSPORT" /\ inserted.served = {}
      BY NewTransporterShape
    <3> HIDE DEF inserted
    <3>3. new \in CompanyRecord /\ new.type = "TRANSPORT" /\ new.admin = t /\ new.served = {}
      BY <3>2 DEF CompanyRecord
    <3> HIDE DEF new
    <3> QED BY <2>1, <3>1, <3>3, CompanyWrite
  <2> QED BY <1>3, <2>2, <2>3
<1>4. ASSUME NEW f \in {Supplier} \cup Rivals, NEW t \in Haulers, NEW regions \in SUBSET Regions,
             AssignRegions(f, t, regions)
      PROVE HaulInv'
  <2> DEFINE new == [company[t] EXCEPT !.served = regions, !.regionsFrom = f]
  <2>1. /\ new \in CompanyRecord /\ new.type = company[t].type /\ new.parent = company[t].parent
        /\ new.admin = company[t].admin /\ new.regionsFrom = f
    BY <1>1 DEF CompanyRecord
  <2>2. /\ company' = [company EXCEPT ![t] = new] /\ UNCHANGED <<tariff, depot, haul, routing>>
        /\ company[t].type = "TRANSPORT" /\ company[t].parent = f
    BY <1>4 DEF AssignRegions
  <2>3. company[t].admin = t
    BY <2>2 DEF HaulInv, Register
  <2> HIDE DEF new
  <2> QED BY <2>1, <2>2, <2>3, CompanyWrite
<1>5. ASSUME NEW c \in Companies, SetStatus(c) PROVE HaulInv'
  <2> DEFINE new == [company[c] EXCEPT !.active = ~@]
  <2>a. company[c] \in CompanyRecord
    BY <1>1
  <2>b. new \in CompanyRecord
    BY <2>a, ZenonT(30) DEF CompanyRecord
  <2>1. /\ new \in CompanyRecord /\ new.type = company[c].type /\ new.parent = company[c].parent
        /\ new.admin = company[c].admin /\ new.served = company[c].served
        /\ new.regionsFrom = company[c].regionsFrom
    BY <2>a, <2>b DEF CompanyRecord
  <2>2. company' = [company EXCEPT ![c] = new] /\ UNCHANGED <<tariff, depot, haul, routing>>
    BY <1>5 DEF SetStatus
  <2> HIDE DEF new
  <2> QED BY <2>1, <2>2, CompanyWrite DEF HaulInv, Register
<1>6. ASSUME NEW t \in Haulers, NEW rates \in RateLists, SetDeliveryRates(t, rates) PROVE HaulInv'
  <2> DEFINE new == [company[t] EXCEPT !.rates = rates]
  <2>1. /\ new \in CompanyRecord /\ new.type = company[t].type /\ new.parent = company[t].parent
        /\ new.admin = company[t].admin /\ new.served = company[t].served
        /\ new.regionsFrom = company[t].regionsFrom
    BY <1>1 DEF CompanyRecord
  <2>2. company' = [company EXCEPT ![t] = new] /\ UNCHANGED <<tariff, depot, haul, routing>>
    BY <1>6 DEF SetDeliveryRates
  <2> HIDE DEF new
  <2> QED BY <2>1, <2>2, CompanyWrite DEF HaulInv, Register
<1> QED BY <1>2, <1>3, <1>4, <1>5, <1>6
\* Prices, configurations and depots are replaced, and quotes are drawn up.
LEMMA TariffStep ==
    ASSUME HaulInv,
           \/ \E p \in UnitPrices : SetFuelPrices(p)
           \/ \E c \in Configs : SetPricingConfig(c)
           \/ \E d \in Depots, km \in Kms, supplies \in BOOLEAN :
                CreateDepot(d, km, supplies) \/ BulkLoad(d, km, supplies)
           \/ \E d \in Depots : WithdrawDepot(d)
           \/ \E q \in Quantities : Quote(q)
           \/ QuoteLapses
           \/ UNCHANGED haulVars
    PROVE  HaulInv'
<1>1. UNCHANGED <<company, haul, routing>>
  BY DEF SetFuelPrices, SetPricingConfig, CreateDepot, BulkLoad, WithdrawDepot, Quote, QuoteLapses, haulVars
<1>2. tariff' \in [price : UnitPrices, config : Configs \cup {None}]
  BY DEF HaulInv, HaulTyped, SetFuelPrices, SetPricingConfig, CreateDepot, BulkLoad, WithdrawDepot,
         Quote, QuoteLapses, haulVars
<1>3. depot' \in [Depots -> [known : BOOLEAN, open : BOOLEAN, supplies : BOOLEAN, km : Kms]]
  <2>1. depot \in [Depots -> [known : BOOLEAN, open : BOOLEAN, supplies : BOOLEAN, km : Kms]]
    BY DEF HaulInv, HaulTyped
  <2>2. ASSUME NEW d \in Depots, NEW km \in Kms, NEW supplies \in BOOLEAN, BulkLoad(d, km, supplies)
        PROVE  depot' \in [Depots -> [known : BOOLEAN, open : BOOLEAN, supplies : BOOLEAN, km : Kms]]
    <3>1. depot' = [depot EXCEPT ![d] = [depot[d] EXCEPT !.km = km, !.supplies = supplies]]
      BY <2>2 DEF BulkLoad
    <3> QED BY <2>1, <3>1
  <2>3. ASSUME NEW d \in Depots, WithdrawDepot(d)
        PROVE  depot' \in [Depots -> [known : BOOLEAN, open : BOOLEAN, supplies : BOOLEAN, km : Kms]]
    BY <2>1, <2>3 DEF WithdrawDepot
  <2>4. ASSUME NEW d \in Depots, NEW km \in Kms, NEW supplies \in BOOLEAN, CreateDepot(d, km, supplies)
        PROVE  depot' \in [Depots -> [known : BOOLEAN, open : BOOLEAN, supplies : BOOLEAN, km : Kms]]
    BY <2>1, <2>4 DEF CreateDepot
  <2>5. depot' = depot \/ \E d \in Depots : \/ WithdrawDepot(d)
                                            \/ \E km \in Kms, supplies \in BOOLEAN :
                                                  CreateDepot(d, km, supplies) \/ BulkLoad(d, km, supplies)
    BY DEF SetFuelPrices, SetPricingConfig, Quote, QuoteLapses, haulVars
  <2> QED BY <2>1, <2>2, <2>3, <2>4, <2>5
<1> QED
  BY <1>1, <1>2, <1>3 DEF HaulInv, HaulTyped, Register, RoutedToOwn, OwnTransporter, PricedAsShown

\* A write of the order alone: to no transporter but the client's own, with the rates shown.
LEMMA HaulWrite ==
    ASSUME HaulInv, UNCHANGED <<company, tariff, depot>>, haul' \in HaulRecord,
           routing' \in [Routings -> RoutingRecord],
           \A r \in Routings : routing'[r].at # "idle" => OwnTransporter(routing'[r].hauler),
           haul'.hauler # None => OwnTransporter(haul'.hauler), PricedAsShown'
    PROVE  HaulInv'
<1>1. HaulTyped'
  BY DEF HaulInv, HaulTyped
<1>2. Register'
  BY DEF HaulInv, Register
<1>3. RoutedToOwn'
  BY DEF RoutedToOwn, OwnTransporter
<1> QED BY <1>1, <1>2, <1>3 DEF HaulInv

LEMMA PlaceStep ==
    ASSUME HaulInv, NEW s \in Stations, NEW q \in Quantities, CreatePriced(s, q) \/ CreateOrder(s, q)
    PROVE  HaulInv'
<1> DEFINE rates == CurrentRates(q)
<1>1. /\ haul' = [NoHaul EXCEPT !.status = "PENDING_APPROVAL", !.station = s, !.rates = rates,
                                !.shown = rates, !.estimate = EstimateOf(rates)]
      /\ UNCHANGED <<company, tariff, depot, routing>> /\ Configured
  BY DEF CreatePriced, CreateOrder, Placed, Redeem
<1>2. rates \in Rates
  BY <1>1, LiveRates DEF HaulInv
<1>3. EstimateOf(rates) \in Nat
  BY <1>2, BreakdownIsNat DEF EstimateOf
<1> HIDE DEF rates
<1>4. /\ haul' \in HaulRecord /\ haul'.hauler = None /\ haul'.status = "PENDING_APPROVAL"
      /\ haul'.shown = rates /\ haul'.rates = rates
  BY <1>1, <1>2, <1>3, NoHaulShape DEF HaulRecord, HaulStatuses
<1>5. PricedAsShown'
  BY <1>4 DEF PricedAsShown
<1> QED BY <1>1, <1>4, <1>5, HaulWrite DEF HaulInv, HaulTyped, RoutedToOwn

LEMMA ReviewStep ==
    ASSUME HaulInv, Approve \/ AwaitRouting
    PROVE  HaulInv'
<1>1. haul \in HaulRecord
  BY DEF HaulInv, HaulTyped
<1>2. UNCHANGED <<company, tariff, depot, routing>>
  BY Zenon DEF Approve, AwaitRouting
<1>3. /\ haul' \in HaulRecord /\ haul'.status \in {"APPROVED", "AWAITING_ROUTING"}
      /\ haul'.hauler = haul.hauler /\ haul'.rates = haul.rates /\ haul'.shown = haul.shown
  <2>1. CASE AwaitRouting
    BY <1>1, <2>1 DEF AwaitRouting, HaulRecord, HaulStatuses
  <2>2. CASE Approve
    <3>1. PICK p \in Overrides \cup {haul.estimate} :
             haul' = [haul EXCEPT !.status = "APPROVED", !.approved = p, !.final = p]
      BY <2>2, Zenon DEF Approve
    <3>2. p \in Nat
      BY <1>1, HaulAssumption DEF HaulRecord
    <3> QED BY <1>1, <3>1, <3>2 DEF HaulRecord, HaulStatuses
  <2> QED BY <2>1, <2>2
<1>4. PricedAsShown'
  BY <1>3 DEF HaulInv, PricedAsShown
<1> QED BY <1>2, <1>3, <1>4, HaulWrite DEF HaulInv, HaulTyped, RoutedToOwn

\* A routing call takes a transporter of the client's fuel company and prices its haul.
LEMMA RoutingStep ==
    ASSUME HaulInv, NEW r \in Routings, (\E t \in Haulers : PickHauler(r, t)) \/ PriceHaul(r)
    PROVE  HaulInv'
<1>1. haul \in HaulRecord /\ routing \in [Routings -> RoutingRecord]
  BY DEF HaulInv, HaulTyped
<1>2. UNCHANGED <<company, tariff, depot, haul>> /\ PricedAsShown'
  <2>1. UNCHANGED <<company, tariff, depot, haul>>
    BY Zenon DEF PickHauler, PriceHaul
  <2> QED BY <2>1 DEF HaulInv, PricedAsShown
<1>3. PICK new : /\ routing' = [routing EXCEPT ![r] = new] /\ new \in RoutingRecord
                 /\ new.at # "idle" => OwnTransporter(new.hauler)
  <2>1. ASSUME NEW t \in Haulers, PickHauler(r, t)
        PROVE  \E new : /\ routing' = [routing EXCEPT ![r] = new] /\ new \in RoutingRecord
                        /\ new.at # "idle" => OwnTransporter(new.hauler)
    <3> DEFINE new == [NotRouting EXCEPT !.at = "picked", !.hauler = t, !.from = haul.status,
                                         !.servedThen = company[t].served]
    <3>1. routing' = [routing EXCEPT ![r] = new]
      BY <2>1, Zenon DEF PickHauler
    <3>2. OwnTransporter(t)
      <4>1. t \in FindServingTransporters(Supplier, RegionOf[LegacyStation])
        BY <2>1, Zenon DEF PickHauler
      <4> QED BY <4>1 DEF FindServingTransporters, OwnTransporter
    <3>3. haul.status \in HaulStatuses /\ company[t].served \in SUBSET Regions
      BY <1>1 DEF HaulInv, HaulTyped, HaulRecord, CompanyRecord, Companies
    <3>4. new \in RoutingRecord /\ new.hauler = t
      BY <3>3, NotRoutingShape DEF RoutingRecord
    <3> HIDE DEF new
    <3> QED BY <3>1, <3>2, <3>4
  <2>2. ASSUME PriceHaul(r)
        PROVE  \E new : /\ routing' = [routing EXCEPT ![r] = new] /\ new \in RoutingRecord
                        /\ new.at # "idle" => OwnTransporter(new.hauler)
    <3>1. CASE Priceable(routing[r].hauler, LegacyStation)
      <4> DEFINE fee == FeeForCompany(routing[r].hauler, LegacyStation)
                 new == [routing[r] EXCEPT !.at = "priced", !.fee = fee]
      <4>1. routing' = [routing EXCEPT ![r] = new] /\ routing[r].at = "picked"
        BY <2>2, <3>1 DEF PriceHaul
      <4>2. OwnTransporter(routing[r].hauler)
        BY <4>1 DEF HaulInv, RoutedToOwn
      <4>3. fee \in Nat
        BY <3>1, <4>2, FeeIsNat DEF HaulInv, OwnTransporter
      <4> HIDE DEF fee
      <4>4. new \in RoutingRecord /\ new.hauler = routing[r].hauler
        BY <1>1, <4>3 DEF RoutingRecord
      <4> HIDE DEF new
      <4> QED BY <4>1, <4>2, <4>4
    <3>2. CASE ~Priceable(routing[r].hauler, LegacyStation)
      <4>1. routing' = [routing EXCEPT ![r] = NotRouting]
        BY <2>2, <3>2 DEF PriceHaul
      <4> QED BY <4>1, NotRoutingShape
    <3> QED BY <3>1, <3>2
  <2> QED BY <2>1, <2>2
<1>4. /\ routing' \in [Routings -> RoutingRecord]
      /\ \A i \in Routings : routing'[i].at # "idle" => OwnTransporter(routing'[i].hauler)
  BY <1>1, <1>3 DEF HaulInv, RoutedToOwn
<1> QED BY <1>1, <1>2, <1>4, HaulWrite DEF HaulInv, RoutedToOwn

\* The order is routed, priced and billed, or the call finds that it has moved on.
LEMMA SettlementStep ==
    ASSUME HaulInv, NEW r \in Routings, AwaitClientSettlement(r)
    PROVE  HaulInv'
<1> DEFINE fee == routing[r].fee
           hauler == routing[r].hauler
<1>1. /\ haul \in HaulRecord /\ routing \in [Routings -> RoutingRecord]
      /\ fee \in Nat /\ hauler \in Haulers \cup {None} /\ routing[r].servedThen \in SUBSET Regions
  BY DEF HaulInv, HaulTyped, RoutingRecord
<1>2. /\ UNCHANGED <<company, tariff, depot>> /\ routing' = [routing EXCEPT ![r] = NotRouting]
      /\ routing[r].at = "priced"
  BY DEF AwaitClientSettlement
<1>3. OwnTransporter(hauler)
  BY <1>2 DEF HaulInv, RoutedToOwn
<1>4. /\ routing' \in [Routings -> RoutingRecord]
      /\ \A i \in Routings : routing'[i].at # "idle" => OwnTransporter(routing'[i].hauler)
  BY <1>1, <1>2, NotRoutingShape DEF HaulInv, RoutedToOwn
<1>5. CASE haul' = haul
  <2>1. PricedAsShown'
    BY <1>5 DEF HaulInv, PricedAsShown
  <2> QED BY <1>1, <1>2, <1>4, <1>5, <2>1, HaulWrite DEF HaulInv, RoutedToOwn
<1>6. CASE haul' = [haul EXCEPT !.status = "PENDING_PAYMENT", !.hauler = hauler, !.fee = fee,
                                !.final = FinalPrice(fee), !.servedThen = routing[r].servedThen]
  <2>1. FinalPrice(fee) \in Nat
    <3>1. haul.final \in Nat /\ haul.rates \in Rates \cup {None}
      BY <1>1 DEF HaulRecord
    <3> HIDE DEF fee
    <3>2. CASE haul.rates # None
      BY <1>1, <3>1, <3>2, BreakdownIsNat DEF FinalPrice
    <3>3. CASE haul.rates = None
      BY <1>1, <3>1, <3>3 DEF FinalPrice
    <3> QED BY <3>2, <3>3
  <2> DEFINE final == FinalPrice(fee)
             served == routing[r].servedThen
  <2>2. haul.shown # None => final = Breakdown(haul.shown, fee)
    BY DEF FinalPrice, HaulInv, PricedAsShown
  <2> HIDE DEF final, fee, hauler, served
  <2>3. haul' = [haul EXCEPT !.status = "PENDING_PAYMENT", !.hauler = hauler, !.fee = fee,
                             !.final = final, !.servedThen = served]
    BY <1>6 DEF final, served
  <2>4. final \in Nat /\ served \in SUBSET Regions
    BY <1>1, <2>1 DEF final, served
  <2>5. /\ haul' \in HaulRecord /\ haul'.hauler = hauler /\ haul'.rates = haul.rates
        /\ haul'.shown = haul.shown /\ haul'.fee = fee /\ haul'.final = final
    BY <1>1, <2>3, <2>4 DEF HaulRecord, HaulStatuses
  <2>6. PricedAsShown'
    BY <2>2, <2>5 DEF HaulInv, PricedAsShown, Breakdown, Percent
  <2> QED BY <1>2, <1>3, <1>4, <2>5, <2>6, HaulWrite
<1> QED BY <1>5, <1>6, Zenon DEF AwaitClientSettlement

LEMMA HaulStep == HaulInv /\ [HaulNext]_haulVars => HaulInv'
<1> SUFFICES ASSUME HaulInv, [HaulNext]_haulVars PROVE HaulInv'
  OBVIOUS
<1>1. CASE RegisterNext
  BY <1>1, CompanyStep, TariffStep, Zenon DEF RegisterNext
<1>2. CASE OrderNext
  BY <1>2, TariffStep, PlaceStep, ReviewStep, RoutingStep, SettlementStep, Zenon DEF OrderNext
<1>3. CASE UNCHANGED haulVars
  BY <1>3, TariffStep
<1> QED BY <1>1, <1>2, <1>3 DEF HaulNext

LEMMA HaulInvariant == HaulSpec => []HaulInv
BY HaulInitially, HaulStep, PTL DEF HaulSpec

\* However the registers are edited between the quote and the bill, the client of an order
\* approved at its estimate pays what it was shown plus the transporter's fee and its tax, to
\* within a cent.
THEOREM BillsAreQuotePlusHaul == HaulSpec => []BillIsQuotePlusHaul
<1>1. ASSUME HaulInv, haul.status = "PENDING_PAYMENT", haul.shown # None
      PROVE  LET added == haul.fee + Percent(haul.fee, haul.shown.tax)
             IN  haul.final - EstimateOf(haul.shown) \in (added - 1)..(added + 1)
  <2>1. haul.shown \in Rates /\ haul.fee \in Nat
    BY <1>1 DEF HaulInv, HaulTyped, HaulRecord
  <2>2. haul.final = Breakdown(haul.shown, haul.fee)
    BY <1>1 DEF HaulInv, PricedAsShown
  <2> DEFINE fee == haul.fee
             shown == haul.shown
  <2> HIDE DEF fee, shown
  <2>3. Breakdown(shown, fee) - EstimateOf(shown)
            \in ((fee + Percent(fee, shown.tax)) - 1)..((fee + Percent(fee, shown.tax)) + 1)
    BY <2>1, FeeAdds DEF fee, shown
  <2>4. haul.final = Breakdown(shown, fee)
    BY <2>2 DEF fee, shown
  <2>5. haul.final - EstimateOf(shown)
            \in ((fee + Percent(fee, shown.tax)) - 1)..((fee + Percent(fee, shown.tax)) + 1)
    BY <2>3, <2>4
  <2> QED BY <2>5 DEF fee, shown
<1>2. HaulInv => BillIsQuotePlusHaul
  BY <1>1 DEF BillIsQuotePlusHaul
<1> QED BY <1>2, HaulInvariant, PTL

\* A transporter's regions come from its parent, and an order is hauled by a transporter of
\* the client's own fuel company, whenever it was picked and whatever was edited since.
THEOREM HaulersAnswerToTheirParents == HaulSpec => []HaulerAnswersToItsParent
<1>1. HaulInv => HaulerAnswersToItsParent
  BY DEF HaulInv, Register, RoutedToOwn, OwnTransporter, HaulerAnswersToItsParent
<1> QED BY <1>1, HaulInvariant, PTL
=============================================================================
