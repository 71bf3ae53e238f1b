------------------------------- MODULE Market -------------------------------
(***************************************************************************)
(* The life of markets in the market service: created as a draft,          *)
(* activated, closed by an admin or by the cron job once its deadline has  *)
(* passed, and in the end resolved or cancelled.  Each admin request and   *)
(* the cron job read the row, decide, write and then publish, one action   *)
(* per await, and nothing locks the row in between: the writes name the    *)
(* market only, not the status that was read.  A market with several       *)
(* options keeps its winner as a flag on the option row, cleared on all    *)
(* and set on one before the status is written.                            *)
(*                                                                         *)
(* Faults: a failed publish is not retried and leaves the status written;  *)
(* a crash ends the requests in flight where they are.  raced only records *)
(* on which markets one of them was accepted while another was on its way  *)
(* from its read to its write.                                             *)
(***************************************************************************)
EXTENDS Integers, Sequences, FiniteSets

CONSTANTS
  Binary,       \* markets on YES or NO
  Multi,        \* markets on one of several options
  Options,      \* the options of a MULTI market
  Admins,       \* admin requests handled at the same time
  Crons,        \* runs of the cron job: at most one in this code, or none
  MaxRequests,  \* bound: admin requests
  Faults

AllMarkets == Binary \cup Multi

MarketAssumption ==
  /\ Binary \cap Multi = {}
  /\ Options \cap {"YES", "NO", "NONE"} = {}
  /\ AllMarkets # {}
  /\ Cardinality(Crons) <= 1
  /\ MaxRequests \in Nat
  /\ Faults \subseteq {"publish", "crash"}

VARIABLES
  status,    \* the status column, NONE before the row exists
  outcome,   \* resolvedOutcome, NONE on a MULTI market
  isWinner,  \* per market, the options flagged as the winner
  expired,   \* markets whose closeAt has passed
  admin,     \* the admin requests in flight
  cron,      \* the cron job
  events,    \* per market, what was published, in order
  requests,  \* admin requests received
  raced      \* history: markets where one was accepted while another was deciding

rows == <<status, outcome, isWinner>>
vars == <<status, outcome, isWinner, expired, admin, cron, events, requests, raced>>

Outcomes == {"YES", "NO"}
Choices  == Outcomes \cup Options \cup {"NONE"}
Statuses == {"DRAFT", "ACTIVE", "CLOSED", "RESOLVED", "CANCELLED"}
Ops      == {"activate", "close", "resolve", "cancel"}  \* and "create"
Event    == [type: {"CREATED", "ACTIVATED", "CLOSED", "RESOLVED", "CANCELLED"},
             choice: Choices]
Idle     == [pc |-> "idle", op |-> "close", market |-> CHOOSE m \in AllMarkets : TRUE,
             choice |-> "NONE"]

TypeOK ==
  /\ status \in [AllMarkets -> Statuses \cup {"NONE"}]
  /\ outcome \in [AllMarkets -> Outcomes \cup {"NONE"}]
  /\ isWinner \in [AllMarkets -> SUBSET Options]
  /\ expired \subseteq AllMarkets
  /\ admin \in [Admins -> [pc: {"idle", "find", "clear", "flag", "update", "publish"},
                           op: Ops \cup {"create"}, market: AllMarkets, choice: Choices]]
  /\ cron \in [Crons -> [pc: {"idle", "update", "publish"}, found: SUBSET AllMarkets]]
  /\ events \in [AllMarkets -> Seq(Event)]
  /\ requests \in 0..MaxRequests
  /\ raced \subseteq AllMarkets

Init ==
  /\ status = [m \in AllMarkets |-> "NONE"]
  /\ outcome = [m \in AllMarkets |-> "NONE"]
  /\ isWinner = [m \in AllMarkets |-> {}]
  /\ expired = {}
  /\ admin = [a \in Admins |-> Idle]
  /\ cron = [j \in Crons |-> [pc |-> "idle", found |-> {}]]
  /\ events = [m \in AllMarkets |-> <<>>]
  /\ requests = 0
  /\ raced = {}

-----------------------------------------------------------------------------
PassDeadline(m) ==
  /\ m \notin expired
  /\ expired' = expired \cup {m}
  /\ UNCHANGED <<rows, admin, cron, events, requests, raced>>

(* Admin requests: findMarketOrThrow and the checks on what it returned,   *)
(* ...                                                                     *)
Goto(a, pc) == admin' = [admin EXCEPT ![a] = [admin[a] EXCEPT !.pc = pc]]
End(a)      == admin' = [admin EXCEPT ![a] = Idle]

Request(op, m, choice, pc) ==
  [pc |-> pc, op |-> op, market |-> m, choice |-> choice]

(* The row and its outcome or option rows are created in one write. *)
CreateMarket(a) ==
  /\ admin[a].pc = "idle"
  /\ \E m \in AllMarkets :
       /\ status[m] = "NONE"
       /\ status' = [status EXCEPT ![m] = "DRAFT"]
       /\ admin' = [admin EXCEPT ![a] = Request("create", m, "NONE", "publish")]
  /\ UNCHANGED <<outcome, isWinner, expired, cron, events, requests, raced>>

Receive(a) ==
  /\ admin[a].pc = "idle"
  /\ requests < MaxRequests
  /\ requests' = requests + 1
  /\ \E op \in Ops, m \in AllMarkets :
       /\ status[m] # "NONE"
       /\ \E c \in IF op = "resolve" THEN Choices ELSE {"NONE"} :
            admin' = [admin EXCEPT ![a] = Request(op, m, c, "find")]
  /\ UNCHANGED <<rows, expired, cron, events, raced>>

Allowed(op, s) ==
  CASE op = "activate" -> s = "DRAFT"
    [] op = "close"    -> s = "ACTIVE"
    [] op = "resolve"  -> s \in {"ACTIVE", "CLOSED"}
    [] op = "cancel"   -> s # "RESOLVED"

(* Mutant: no outcome is required of a binary market. *)
AnyOutcome(r) == r.op = "resolve" /\ r.market \in Multi => r.choice \in Options

(* An outcome is required of a binary market, one of its options of a      *)
(* MULTI one.                                                              *)
ValidWinner(r) ==
  r.op = "resolve" => r.choice \in IF r.market \in Multi THEN Options ELSE Outcomes

(* Who has been accepted on a market and not yet written its status. *)
Deciding(m) == {a \in Admins : admin[a].pc \in {"clear", "flag", "update"} /\ admin[a].market = m}
Closing(m)  == {j \in Crons : cron[j].pc = "update" /\ m \in cron[j].found}
Contested(m) == Deciding(m) # {} \/ Closing(m) # {}

FindMarket(a) ==
  LET r == admin[a]
      accepted == Allowed(r.op, status[r.market]) /\ ValidWinner(r)
  IN  /\ r.pc = "find"
      /\ \/ /\ accepted
            /\ Goto(a, IF r.op = "resolve" /\ r.market \in Multi THEN "clear"
                                                                 ELSE "update")
            /\ raced' = raced \cup {m \in {r.market} : Contested(m)}
         \/ ~accepted /\ End(a) /\ UNCHANGED raced
      /\ UNCHANGED <<rows, expired, cron, events, requests>>

(* Mutant: the flags of an earlier attempt are left. *)
KeepWinners(a) ==
  /\ admin[a].pc = "clear"
  /\ Goto(a, "flag")
  /\ UNCHANGED <<rows, expired, cron, events, requests, raced>>

(* ... the option rows of a MULTI market, two updates, ...                 *)
ClearWinners(a) ==
  /\ admin[a].pc = "clear"
  /\ isWinner' = [isWinner EXCEPT ![admin[a].market] = {}]
  /\ Goto(a, "flag")
  /\ UNCHANGED <<status, outcome, expired, cron, events, requests, raced>>

FlagWinner(a) ==
  LET m == admin[a].market
  IN  /\ admin[a].pc = "flag"
      /\ isWinner' = [isWinner EXCEPT ![m] =
                        isWinner[m] \cup ({admin[a].choice} \cap Options)]
      /\ Goto(a, "update")
      /\ UNCHANGED <<status, outcome, expired, cron, events, requests, raced>>

(* ... the update of the row, and the announcement. *)
Target(op) ==
  CASE op = "activate" -> "ACTIVE"
    [] op = "close"    -> "CLOSED"
    [] op = "resolve"  -> "RESOLVED"
    [] op = "cancel"   -> "CANCELLED"

Announcement(op) ==
  CASE op = "create"   -> "CREATED"
    [] op = "activate" -> "ACTIVATED"
    [] OTHER           -> Target(op)

Publish(m, type, choice) ==
  events' = [events EXCEPT ![m] = Append(events[m], [type |-> type, choice |-> choice])]

ResolvedOutcome(a) ==
  CASE admin[a].op # "resolve"      -> outcome[admin[a].market]
    [] admin[a].op = "resolve" /\ admin[a].market \in Multi -> "NONE"
    [] OTHER                        -> admin[a].choice

UpdateMarket(a) ==
  LET m == admin[a].market
  IN  /\ admin[a].pc = "update"
      /\ status' = [status EXCEPT ![m] = Target(admin[a].op)]
      /\ outcome' = [outcome EXCEPT ![m] = ResolvedOutcome(a)]
      /\ Goto(a, "publish")
      /\ UNCHANGED <<isWinner, expired, cron, events, requests, raced>>

PublishMarket(a) ==
  /\ admin[a].pc = "publish"
  /\ \/ Publish(admin[a].market, Announcement(admin[a].op), admin[a].choice)
     \/ "publish" \in Faults /\ UNCHANGED events
  /\ End(a)
  /\ UNCHANGED <<rows, expired, cron, requests, raced>>

Crash(a) ==
  /\ "crash" \in Faults
  /\ admin[a].pc # "idle"
  /\ End(a)
  /\ UNCHANGED <<rows, expired, cron, events, requests, raced>>

(* autoCloseExpiredMarkets. *)
(* Mutant: the query asks for closed markets. *)
AlreadyClosed == {m \in expired : status[m] = "CLOSED"}

(* Mutant: the query leaves out the status. *)
AllExpired == {m \in expired : status[m] \notin {"NONE", "CLOSED"}}

Expired == {m \in expired : status[m] = "ACTIVE"}
SetCron(j, pc, found) == cron' = [cron EXCEPT ![j] = [pc |-> pc, found |-> found]]

FindExpired(j) ==
  /\ cron[j].pc = "idle"
  /\ Expired # {}
  /\ SetCron(j, "update", Expired)
  /\ raced' = raced \cup {m \in Expired : Contested(m)}
  /\ UNCHANGED <<rows, expired, admin, events, requests>>

CloseExpired(j) ==
  /\ cron[j].pc = "update"
  /\ status' = [m \in AllMarkets |-> IF m \in cron[j].found THEN "CLOSED" ELSE status[m]]
  /\ SetCron(j, "publish", cron[j].found)
  /\ UNCHANGED <<outcome, isWinner, expired, admin, events, requests, raced>>

Closed == [type |-> "CLOSED", choice |-> "NONE"]

PublishClosed(j) ==
  /\ cron[j].pc = "publish"
  /\ \/ events' = [m \in AllMarkets |-> IF m \in cron[j].found
                                        THEN Append(events[m], Closed) ELSE events[m]]
     \/ "publish" \in Faults /\ UNCHANGED events
  /\ SetCron(j, "idle", {})
  /\ UNCHANGED <<rows, expired, admin, requests, raced>>

AutoClose(j) == FindExpired(j) \/ CloseExpired(j) \/ PublishClosed(j)
Serve(a)     == \/ FindMarket(a) \/ ClearWinners(a) \/ FlagWinner(a)
                \/ UpdateMarket(a) \/ PublishMarket(a)

Next ==
  \/ \E m \in AllMarkets : PassDeadline(m)
  \/ \E a \in Admins : CreateMarket(a) \/ Receive(a) \/ Serve(a) \/ Crash(a)
  \/ \E j \in Crons : AutoClose(j)

Spec == Init /\ [][Next]_vars

-----------------------------------------------------------------------------
(* What is shown: the list by status, and the page of one market. *)
listMarkets(s) == {m \in AllMarkets : status[m] = s}

getMarket(m) == [status |-> status[m], resolvedOutcome |-> outcome[m],
                 winners |-> isWinner[m]]

-----------------------------------------------------------------------------
Times(m, type) == Cardinality({i \in 1..Len(events[m]) : events[m][i].type = type})

(* Whatever the admins and the cron job do on it, one after the other, a   *)
(* market is announced resolved or cancelled, never both, and resolved     *)
(* once: what trading pays out and refunds on.  (Not: a market on which    *)
(* one was accepted before another had written; no lock forbids that.)     *)
OneVerdict ==
  \A m \in AllMarkets \ raced :
    /\ Times(m, "RESOLVED") <= 1
    /\ Times(m, "RESOLVED") = 0 \/ Times(m, "CANCELLED") = 0

(* A resolved market has one winner on record, also when an earlier try at *)
(* resolving it stopped between its writes: its outcome, or exactly one    *)
(* flagged option; and what was announced is what is on record.            *)
WinnerOnRecord(m) ==
  IF m \in Multi THEN getMarket(m).winners ELSE {getMarket(m).resolvedOutcome} \ {"NONE"}
OneWinner ==
  \A m \in AllMarkets \ raced :
    /\ getMarket(m).status = "RESOLVED" => Cardinality(WinnerOnRecord(m)) = 1
    /\ \A i \in 1..Len(events[m]) :
         events[m][i].type = "RESOLVED" => WinnerOnRecord(m) = {events[m][i].choice}

(* One verdict, and one winner that belongs to it. *)
OneVerdictOneWinner == OneVerdict /\ OneWinner

(* A verdict is challenged by whoever was accepted before it: the cron     *)
(* job, or a request that the verdict forbids.                             *)
Challenged(m) ==
  \/ Closing(m) # {}
  \/ \E a \in Deciding(m) : ~Allowed(admin[a].op, status[m])

HasFinalVerdict(m) ==
  /\ status[m] \in {"RESOLVED", "CANCELLED"}
  /\ m \in raced => ~Challenged(m)

(* A verdict is final, with any number of admins and the cron job at work, *)
(* before the deadline and after it: where no two of them raced nothing    *)
(* changes the status of a resolved or cancelled market, nor its winner;   *)
(* and where they did, nothing does once those accepted before the verdict *)
(* are through, for no new ones are accepted.                              *)
VerdictIsFinal ==
  [][\A m \in AllMarkets : HasFinalVerdict(m) =>
       /\ ~Challenged(m)'
       /\ status'[m] = status[m]
       /\ status[m] = "RESOLVED" =>
            outcome'[m] = outcome[m] /\ isWinner'[m] = isWinner[m]]_vars

(* An active market whose deadline has passed leaves the list of active    *)
(* markets, with whatever requests, crashes and failed publishes come      *)
(* between.                                                                *)
ExpiredIsClosed ==
  \A m \in AllMarkets :
    m \in expired /\ m \in listMarkets("ACTIVE") ~> m \notin listMarkets("ACTIVE")

=============================================================================
