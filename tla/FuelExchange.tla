---------------------------- MODULE FuelExchange ----------------------------
(***************************************************************************)
(* The fuel exchange: a company offers a quantity to the market, others    *)
(* answer blind with a price or a decline, and the raiser awards one       *)
(* answer.  Answering and awarding check first and write later, so a call  *)
(* waits in calls between the two.  Requests of the directed exchange this *)
(* one replaces are migrated by a script before the code goes live; the    *)
(* script inserts the offer and its proposal in two writes and may die     *)
(* between them.  Every company has one active administrator, one fuel     *)
(* grade is traded, and its sellers do not change.                         *)
(***************************************************************************)
EXTENDS Naturals, FiniteSets

CONSTANTS
    Firms,      \* fuel companies
    Offers,     \* offers that may be raised or migrated
    Prices,     \* unit prices, positive
    NoFirm,
    MaxCalls    \* calls checked and not yet written

ASSUME ExchangeAssumption == Prices \subseteq Nat \ {0} /\ NoFirm \notin Firms /\ MaxCalls \in Nat

VARIABLES
    offer,      \* ExchangeOffer documents
    answers,    \* ExchangeProposal documents, by offer and proposing company
    calls,      \* answers, awards and notifications under way
    told,       \* EXCHANGE_* notifications
    suspended,  \* companies whose status is SUSPENDED
    sells,      \* companies with a price for the grade
    request,    \* ExchangeRequest documents of the old exchange
    script,     \* the request the migration has half converted
    interrupted \* offers whose migration died after the first write (history)

exchangeVars == <<offer, answers, calls, told, suspended, sells, request, script, interrupted>>

Decline == 0
ExchangeOfferState == {"OPEN", "AWARDED", "WITHDRAWN", "CLOSED_NO_AWARD"}
ProposalOutcome == {"PROPOSED", "DECLINED", "AWARDED", "NOT_SELECTED"}
ExchangeRequestState == {"AWAITING_RESPONSE", "ACCEPTED", "DECLINED", "WITHDRAWN"}

NoOffer == [state |-> "none"]
NoAnswer == [outcome |-> "none"]
NoRequest == [state |-> "none"]

ExchangeOffer ==
    [state : ExchangeOfferState, raiser : Firms, parties : SUBSET Firms, openToMarket : BOOLEAN,
     winner : Firms \cup {NoFirm}, agreed : Prices \cup {Decline}]

ExchangeProposal == [outcome : ProposalOutcome, price : Prices \cup {Decline}]

ExchangeRequest == [state : ExchangeRequestState, raiser : Firms, recipient : Firms, price : Prices]

Calls ==
    [kind : {"propose", "award", "tellAward", "tellWithdrawal"}, offer : Offers, firm : Firms,
     price : Prices \cup {Decline}]

ExchangeTypeOK ==
    /\ offer \in [Offers -> ExchangeOffer \cup {NoOffer}]
    /\ answers \in [Offers -> [Firms -> ExchangeProposal \cup {NoAnswer}]]
    /\ calls \subseteq Calls /\ Cardinality(calls) <= MaxCalls
    /\ told \subseteq Offers \X Firms \X {"available", "received", "won", "closed"}
    /\ suspended \subseteq Firms /\ sells \subseteq Firms
    /\ request \in [Offers -> ExchangeRequest \cup {NoRequest}]
    /\ script \subseteq Offers /\ Cardinality(script) <= 1
    /\ interrupted \subseteq Offers

-----------------------------------------------------------------------------

\* An administrator's request is refused while the company is not ACTIVE.
Acts(f) == f \notin suspended

Eligible(f) == (sells \ suspended) \ {f}

Call(kind, o, f, p) == [kind |-> kind, offer |-> o, firm |-> f, price |-> p]
Waits(c) == Cardinality(calls) < MaxCalls /\ c \notin calls /\ calls' = calls \cup {c}

\* partySetScopePlugin: a company reads the offers that name it a party and every market offer.
Reads(f, o) == offer[o] # NoOffer /\ (f \in offer[o].parties \/ offer[o].openToMarket)

\* create, with its notifications to the companies found eligible.
Create(f, o) ==
    /\ offer[o] = NoOffer /\ request[o] = NoRequest
    /\ Acts(f) /\ Eligible(f) # {}
    /\ offer' = [offer EXCEPT ![o] = [state |-> "OPEN", raiser |-> f, parties |-> {f}, openToMarket |-> TRUE,
                                      winner |-> NoFirm, agreed |-> Decline]]
    /\ told' = told \cup {<<o, g, "available">> : g \in Eligible(f)}
    /\ UNCHANGED <<answers, calls, suspended, sells, request, script, interrupted>>

\* What propose asks of an offer before it writes; p is a price or Decline.
MayAnswer(f, o, p) ==
    /\ Reads(f, o)
    /\ offer[o].raiser # f
    /\ offer[o].state = "OPEN"
    /\ offer[o].raiser \notin suspended
    /\ p # Decline => f \in sells

Propose(f, o, p) ==
    /\ Acts(f) /\ MayAnswer(f, o, p)
    /\ Waits(Call("propose", o, f, p))
    /\ UNCHANGED <<offer, answers, told, suspended, sells, request, script, interrupted>>

\* The insert under the unique (offer, company) index: a second answer is refused.
ProposeInsert(c) ==
    /\ c.kind = "propose"
    /\ calls' = calls \ {c}
    /\ IF answers[c.offer][c.firm] = NoAnswer
       THEN /\ answers' = [answers EXCEPT ![c.offer][c.firm] =
                  [outcome |-> IF c.price = Decline THEN "DECLINED" ELSE "PROPOSED", price |-> c.price]]
            /\ told' = told \cup {<<c.offer, offer[c.offer].raiser, "received">>}
       ELSE UNCHANGED <<answers, told>>
    /\ UNCHANGED <<offer, suspended, sells, request, script, interrupted>>

\* award loads the offer and the proposal; only a decline is refused here.
Award(o, g) ==
    /\ offer[o] # NoOffer /\ Acts(offer[o].raiser)
    /\ answers[o][g] # NoAnswer /\ answers[o][g].outcome # "DECLINED"
    /\ Waits(Call("award", o, g, answers[o][g].price))
    /\ UNCHANGED <<offer, answers, told, suspended, sells, request, script, interrupted>>

\* The award transaction without its condition on the state.
BugAwardCommit(c) ==
    /\ c.kind = "award"
    /\ offer' = [offer EXCEPT ![c.offer].state = "AWARDED", ![c.offer].winner = c.firm, ![c.offer].agreed = c.price]
    /\ answers' = [answers EXCEPT ![c.offer] = [g \in Firms |->
          IF g = c.firm THEN [@[g] EXCEPT !.outcome = "AWARDED"] ELSE @[g]]]
    /\ calls' = calls \ {c}
    /\ UNCHANGED <<told, suspended, sells, request, script, interrupted>>

\* The award transaction, conditional on the offer being OPEN: the winner is marked, every
\* other proposal of the offer becomes NOT_SELECTED.
AwardCommit(c) ==
    /\ c.kind = "award"
    /\ IF offer[c.offer].state = "OPEN"
       THEN /\ offer' = [offer EXCEPT ![c.offer].state = "AWARDED", ![c.offer].winner = c.firm,
                                      ![c.offer].agreed = c.price]
            /\ answers' = [answers EXCEPT ![c.offer] = [g \in Firms |->
                  CASE g = c.firm -> [@[g] EXCEPT !.outcome = "AWARDED"]
                    [] g # c.firm /\ @[g] # NoAnswer -> [@[g] EXCEPT !.outcome = "NOT_SELECTED"]
                    [] OTHER -> @[g]]]
            /\ calls' = (calls \ {c}) \cup {Call("tellAward", c.offer, c.firm, c.price)}
       ELSE calls' = calls \ {c} /\ UNCHANGED <<offer, answers>>
    /\ UNCHANGED <<told, suspended, sells, request, script, interrupted>>

\* notifyAward: the winner, then whoever is NOT_SELECTED by now.
NotifyAward(c) ==
    /\ c.kind = "tellAward"
    /\ told' = told \cup {<<c.offer, c.firm, "won">>} \cup
               {<<c.offer, g, "closed">> : g \in {h \in Firms : answers[c.offer][h].outcome = "NOT_SELECTED"}}
    /\ calls' = calls \ {c}
    /\ UNCHANGED <<offer, answers, suspended, sells, request, script, interrupted>>

\* withdraw, whatever became of the offer.
BugWithdraw(o) ==
    /\ offer[o] # NoOffer /\ Acts(offer[o].raiser)
    /\ Waits(Call("tellWithdrawal", o, offer[o].raiser, Decline))
    /\ offer' = [offer EXCEPT ![o].state = "WITHDRAWN"]
    /\ UNCHANGED <<answers, told, suspended, sells, request, script, interrupted>>

\* withdraw, conditional on the offer being OPEN.
Withdraw(o) ==
    /\ offer[o] # NoOffer /\ Acts(offer[o].raiser)
    /\ offer[o].state = "OPEN"
    /\ Waits(Call("tellWithdrawal", o, offer[o].raiser, Decline))
    /\ offer' = [offer EXCEPT ![o].state = "WITHDRAWN"]
    /\ UNCHANGED <<answers, told, suspended, sells, request, script, interrupted>>

NotifyWithdrawal(c) ==
    /\ c.kind = "tellWithdrawal"
    /\ told' = told \cup {<<c.offer, g, "closed">> : g \in {h \in Firms : answers[c.offer][h].outcome = "PROPOSED"}}
    /\ calls' = calls \ {c}
    /\ UNCHANGED <<offer, answers, suspended, sells, request, script, interrupted>>

\* The operator suspends or reinstates a company.
SetFirmStatus(f) ==
    /\ suspended' = IF f \in suspended THEN suspended \ {f} ELSE suspended \cup {f}
    /\ UNCHANGED <<offer, answers, calls, told, sells, request, script, interrupted>>

-----------------------------------------------------------------------------

MapState(s) ==
    CASE s = "AWAITING_RESPONSE" -> "OPEN"
      [] s = "ACCEPTED" -> "AWARDED"
      [] s = "DECLINED" -> "CLOSED_NO_AWARD"
      [] OTHER -> "WITHDRAWN"

\* The migration converts a request whose offer does not exist yet: the first write.
MigrateOffer(o) ==
    /\ request[o] # NoRequest /\ offer[o] = NoOffer /\ script = {}
    /\ LET r == request[o] IN
          /\ offer' = [offer EXCEPT ![o] =
                [state |-> MapState(r.state), raiser |-> r.raiser, parties |-> {r.raiser, r.recipient},
                 openToMarket |-> FALSE,
                 winner |-> IF r.state = "ACCEPTED" THEN r.recipient ELSE NoFirm,
                 agreed |-> IF r.state = "ACCEPTED" THEN r.price ELSE Decline]]
          /\ script' = IF r.state \in {"ACCEPTED", "DECLINED"} THEN {o} ELSE {}
    /\ UNCHANGED <<answers, calls, told, suspended, sells, request, interrupted>>

\* The second write, for a request that was answered.
MigrateProposal(o) ==
    /\ o \in script
    /\ LET r == request[o] IN
          answers' = [answers EXCEPT ![o][r.recipient] =
              IF r.state = "ACCEPTED" THEN [outcome |-> "AWARDED", price |-> r.price]
              ELSE [outcome |-> "DECLINED", price |-> Decline]]
    /\ script' = {}
    /\ UNCHANGED <<offer, calls, told, suspended, sells, request, interrupted>>

\* The script dies between the writes; a later run finds the offer and skips the request.
MigrationDies(o) ==
    /\ o \in script
    /\ script' = {} /\ interrupted' = interrupted \cup {o}
    /\ UNCHANGED <<offer, answers, calls, told, suspended, sells, request>>

\* The new code serves once the script has been through every request.
Live == script = {} /\ \A o \in Offers : request[o] # NoRequest => offer[o] # NoOffer

ExchangeInit ==
    /\ offer = [o \in Offers |-> NoOffer]
    /\ answers = [o \in Offers |-> [f \in Firms |-> NoAnswer]]
    /\ calls = {} /\ told = {} /\ suspended = {} /\ script = {} /\ interrupted = {}
    /\ sells \in SUBSET Firms

MarketNext ==
    \/ \E f \in Firms, o \in Offers : \/ Create(f, o) \/ Award(o, f)
                                      \/ \E p \in Prices \cup {Decline} : Propose(f, o, p)
    \/ \E o \in Offers : Withdraw(o)
    \/ \E f \in Firms : SetFirmStatus(f)
    \/ \E c \in calls : ProposeInsert(c) \/ AwardCommit(c) \/ NotifyAward(c) \/ NotifyWithdrawal(c)

MigrationNext == \E o \in Offers : MigrateOffer(o) \/ MigrateProposal(o) \/ MigrationDies(o)

ExchangeNext == (Live /\ MarketNext) \/ MigrationNext

ExchangeSpec ==
    /\ ExchangeInit /\ request \in [Offers -> ExchangeRequest \cup {NoRequest}]
    /\ [][ExchangeNext]_exchangeVars

-----------------------------------------------------------------------------

\* buildIncomingFilter under the plugin's scope: another company's offer whose raiser is not
\* suspended, directed at the viewer or of a grade the viewer sells.
BugIncomingFilter(o, f) ==
    /\ Reads(f, o) /\ offer[o].raiser # f
    /\ offer[o].openToMarket => f \in sells

IncomingFilter(o, f) ==
    /\ Reads(f, o) /\ offer[o].raiser \notin suspended \cup {f}
    /\ offer[o].openToMarket => f \in sells

\* summary's incomingAwaitingAnswer.
AwaitingAnswer(f) == {o \in Offers : IncomingFilter(o, f) /\ offer[o].state = "OPEN" /\ answers[o][f] = NoAnswer}

\* buildDetail's proposals for the raiser: whose company is named.
NamedToRaiser(o) == {f \in Firms : answers[o][f] # NoAnswer /\ answers[o][f].outcome # "DECLINED"}

-----------------------------------------------------------------------------

\* However answers, awards and withdrawals race, an offer is AWARDED exactly when one of its
\* proposals is, and that one is priced, is the company the offer names and carries the price
\* the offer froze; offers whose migration died half-way are excused.
AwardIsSettled ==
    \A o \in Offers \ (script \cup interrupted) :
        LET won == {f \in Firms : answers[o][f].outcome = "AWARDED"} IN
        IF offer[o].state = "AWARDED"
        THEN /\ won = {offer[o].winner}
             /\ offer[o].agreed = answers[o][offer[o].winner].price
             /\ offer[o].agreed \in Prices
        ELSE won = {}

\* What the summary counts as awaiting a company's answer is what propose would take from it:
\* each such offer accepts its decline, and each unanswered offer that would accept its price
\* is counted.
AwaitingMeansAnswerable ==
    \A f \in Firms \ suspended, o \in Offers :
        /\ o \in AwaitingAnswer(f) => MayAnswer(f, o, Decline)
        /\ \A p \in Prices : MayAnswer(f, o, p) /\ answers[o][f] = NoAnswer => o \in AwaitingAnswer(f)

\* No award of the offer still has its notices to send.
NoticesOut(o) == \A c \in calls : c.kind = "tellAward" => c.offer # o

\* The notices agree with the outcome, though they are sent after the writes they are about
\* and read the answers again: a company is told it won only of an offer it won, that an
\* offer closed only when it closed and went to another or to nobody; and once an award's
\* notices are out, its winner and every company it passed over have had theirs.
NoticesMatchOutcome ==
    \A o \in Offers :
        /\ \A f \in Firms :
              /\ <<o, f, "won">> \in told => offer[o].state = "AWARDED" /\ offer[o].winner = f
              /\ <<o, f, "closed">> \in told =>
                    offer[o].state \in {"AWARDED", "WITHDRAWN"} /\ offer[o].winner # f
        /\ offer[o].state = "AWARDED" /\ request[o].state # "ACCEPTED" /\ NoticesOut(o) =>
              /\ <<o, offer[o].winner, "won">> \in told
              /\ \A f \in Firms : answers[o][f].outcome = "NOT_SELECTED" => <<o, f, "closed">> \in told

\* buildDetail says "the raiser learns a decline occurred, and NOTHING else about it - never
\* the declining company's identity".  The award turns every other answer into NOT_SELECTED,
\* and from then on the detail names the companies that declined: the run about this
\* property finds the violation.  Migrated offers the script left incomplete are excused.
DeclineIsAnonymous ==
    \A o \in Offers \ (script \cup interrupted), f \in Firms :
        f \in NamedToRaiser(o) => answers[o][f].price # Decline
=============================================================================
