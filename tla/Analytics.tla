------------------------------ MODULE Analytics ------------------------------
(***************************************************************************)
(* The analytics service: tables filled from three topics, each with a     *)
(* consumer group of its own, so that nothing orders a settlement after    *)
(* the trades it settles; the views computed from them; and the hourly     *)
(* leaderboard.  What is published is there from the start, and handled    *)
(* whenever the groups get to it, also again and again, or never; that     *)
(* covers every order of publishing.                                       *)
(*                                                                         *)
(* Trade number i is of i KES.  Days are counted from January 1st, whose   *)
(* weekday (0 is Sunday) is jan1.                                          *)
(***************************************************************************)
EXTENDS Integers, Sequences, FiniteSets, Functions

CONSTANTS
  Traders, Markets,
  Published,     \* what may be published: confirmed trades and verdicts
  LastDay,       \* bound: days in a behaviour
  FirstWeekdays, \* weekdays on which the year may start
  PayoutKes      \* what a winning position is paid

AnalyticsAssumption ==
  /\ Published \subseteq [sent: Seq([user: Traders, market: Markets, outcome: {"YES", "NO"}]),
                          verdict: [Markets -> {"YES", "NO"}]]
  /\ IsFiniteSet(Traders) /\ IsFiniteSet(Markets)
  /\ LastDay \in Nat /\ PayoutKes \in Nat
  /\ FirstWeekdays \subseteq 0..6

VARIABLES
  jan1, today,
  sent,             \* TRADING_TRADE_CONFIRMED messages
  verdict,          \* the MARKET_RESOLVED messages: outcome of each market
  tradeEvent,       \* trade_events: the day a trade was recorded
  settlementEvent,  \* settlement_events per trader and market
  marketEarnings,   \* market_earnings: the markets with a row
  board,            \* leaderboard_entries per week and trader
  marketVolume,     \* market_volumes per week and market
  cron              \* computeLeaderboard

events == <<tradeEvent, settlementEvent, marketEarnings>>
cached == <<board, marketVolume, cron>>
vars   == <<jan1, today, sent, verdict, events, cached>>

None     == -1
Outcomes == {"YES", "NO"}
Ids      == DOMAIN sent
Days     == 0..LastDay

SumOver(f, S) == SumFunctionOnSet(f, S)
Kes(ids)      == SumOver([i \in Ids |-> i], ids)

(* currentWeeklyPeriod and periodStart. *)
WeekOf(day) == (day + jan1 + 1 + 6) \div 7

PeriodStart(week) == (week - 1) * 7 - jan1 + 1

InPeriod(week, day) == day \in PeriodStart(week)..(PeriodStart(week) + 6)
Weeks == 1..((LastDay + 13) \div 7)

NoRow   == [exists |-> FALSE, won |-> FALSE, payout |-> 0, cost |-> 0, day |-> 0]
Row     == [exists: BOOLEAN, won: BOOLEAN, payout: Nat, cost: Nat, day: Days]
Entry   == [exists: BOOLEAN, pnl: Int, volume: Nat, wins: Nat, rank: Nat]
NoEntry == [exists |-> FALSE, pnl |-> 0, volume |-> 0, wins |-> 0, rank |-> 0]
Resting == [pc |-> "idle", week |-> 1, volume |-> [u \in Traders |-> 0], todo |-> {},
            pnl |-> [u \in Traders |-> 0], wins |-> [u \in Traders |-> 0], ranked |-> FALSE]

TypeOK ==
  /\ jan1 \in FirstWeekdays /\ today \in Days
  /\ [sent |-> sent, verdict |-> verdict] \in Published
  /\ tradeEvent \in [Ids -> Days \cup {None}]
  /\ settlementEvent \in [Traders \X Markets -> Row]
  /\ marketEarnings \subseteq Markets
  /\ board \in [Weeks -> [Traders -> Entry]]
  /\ marketVolume \in [Weeks -> [Markets -> Nat]]
  /\ cron.pc \in {"idle", "settlements", "entries", "ranks", "volumes"}
  /\ cron.week \in Weeks /\ cron.todo \subseteq Traders

Init ==
  /\ jan1 \in FirstWeekdays
  /\ today = 0
  /\ \E p \in Published : sent = p.sent /\ verdict = p.verdict
  /\ tradeEvent = [i \in Ids |-> None]
  /\ settlementEvent = [p \in Traders \X Markets |-> NoRow]
  /\ marketEarnings = {}
  /\ board = [w \in Weeks |-> [u \in Traders |-> NoEntry]]
  /\ marketVolume = [w \in Weeks |-> [m \in Markets |-> 0]]
  /\ cron = Resting

-----------------------------------------------------------------------------
NextDay ==
  /\ today < LastDay
  /\ today' = today + 1
  /\ UNCHANGED <<jan1, sent, verdict, events, cached>>

Recorded  == {i \in Ids : tradeEvent[i] # None}
ByUser(u) == {i \in Recorded : sent[i].user = u}
On(m)     == {i \in Recorded : sent[i].market = m}

FirstDay(i) == IF tradeEvent[i] = None THEN today ELSE tradeEvent[i]

handleTradeConfirmed ==
  /\ \E i \in DOMAIN sent : tradeEvent' = [tradeEvent EXCEPT ![i] = FirstDay(i)]
  /\ UNCHANGED <<jan1, today, sent, verdict, settlementEvent, marketEarnings, cached>>

CostBasis(u, m) == Kes(ByUser(u) \cap On(m))

(* One message for each position, also of a loser.                         *)
(* The cost is what has been recorded of the trader's trades so far; there *)
(* is one row per trader and market, and the first message makes it.       *)
handleMarketSettled ==
  /\ \E t \in Range(sent) :
       LET p   == <<t.user, t.market>>
           won == t.outcome = verdict[t.market]
       IN  settlementEvent' =
             IF settlementEvent[p].exists THEN settlementEvent
             ELSE [settlementEvent EXCEPT ![p] =
                     [exists |-> TRUE, won |-> won,
                      payout |-> IF won THEN PayoutKes ELSE 0,
                      cost |-> CostBasis(t.user, t.market), day |-> today]]
  /\ UNCHANGED <<jan1, today, sent, verdict, tradeEvent, marketEarnings, cached>>

handleMarketResolved ==
  /\ \E m \in Markets : marketEarnings' = marketEarnings \cup {m}
  /\ UNCHANGED <<jan1, today, sent, verdict, tradeEvent, settlementEvent, cached>>

-----------------------------------------------------------------------------
(* The views, each computed from the tables at the moment it is asked for. *)
SettlementsOf(u) == {p \in {u} \X Markets : settlementEvent[p].exists}
SettlementsIn(m) == {p \in Traders \X {m} : settlementEvent[p].exists}
Payouts(S)       == SumOver([p \in S |-> settlementEvent[p].payout], S)
CostsOf(S)       == SumOver([p \in S |-> settlementEvent[p].cost], S)
Profit(S)        == Payouts(S) - CostsOf(S)
Wins(S)          == Cardinality({p \in S : settlementEvent[p].won})

getMarketStats(m) ==
  [dailyVolume  |-> Kes({i \in On(m) : tradeEvent[i] >= today - 1}),
   weeklyVolume |-> Kes({i \in On(m) : tradeEvent[i] >= today - 7}),
   totalVolume  |-> Kes(On(m)),
   traders      |-> {sent[i].user : i \in On(m)},
   tradeCount   |-> Cardinality(On(m))]

getPlatformOverview(days) ==
  LET since == {i \in Recorded : tradeEvent[i] >= today - days}
  IN  [totalVolume  |-> Kes(Recorded),
       totalTrades  |-> Cardinality(Recorded),
       traders      |-> {sent[i].user : i \in Recorded},
       recentVolume |-> Kes(since),
       dailyVolume  |-> [d \in Days |-> Kes({i \in since : tradeEvent[i] = d})],
       markets      |-> [m \in {sent[i].market : i \in Recorded} |-> Kes(On(m))]]

(* Mutant: the totals are those of the markets on the page. *)
ListedTotals(S) == Payouts({p \in S : p[2] \in marketEarnings})

PayoutTotal(S) == Payouts(S)

getPayoutsOverview ==
  LET all == {p \in Traders \X Markets : settlementEvent[p].exists}
  IN  [totalPayouts |-> PayoutTotal(all), totalStaked |-> CostsOf(all),
       markets |-> [m \in marketEarnings |->
                      [staked  |-> CostsOf(SettlementsIn(m)),
                       payouts |-> Payouts(SettlementsIn(m)),
                       winners |-> Wins(SettlementsIn(m)),
                       losers  |-> Cardinality(SettlementsIn(m)) - Wins(SettlementsIn(m))]]]

getUserSettlementsOverview ==
  LET all == {p \in Traders \X Markets : settlementEvent[p].exists}
  IN  [totalWagered |-> CostsOf(all), totalWon |-> Payouts(all),
       netUserLoss  |-> CostsOf(all) - Payouts(all),
       users |-> [u \in {p[1] : p \in all} |->
                    [wagered |-> CostsOf(SettlementsOf(u)), won |-> Payouts(SettlementsOf(u)),
                     netPnl  |-> Profit(SettlementsOf(u)), wins |-> Wins(SettlementsOf(u))]]]

getUserStats(u) ==
  [totalVolume |-> Kes(ByUser(u)), totalTrades |-> Cardinality(ByUser(u)),
   totalPnl |-> Profit(SettlementsOf(u)), wins |-> Wins(SettlementsOf(u))]

TradesIn(week)         == {i \in Recorded : InPeriod(week, tradeEvent[i])}
SettledIn(week, u)     == {p \in SettlementsOf(u) : InPeriod(week, settlementEvent[p].day)}

(* The traders of the week, who are then sorted by profit. *)
getLeaderboard(week) ==
  [u \in {sent[i].user : i \in TradesIn(week)} |->
     [profit |-> Profit(SettledIn(week, u)), wins |-> Wins(SettledIn(week, u)),
      trades |-> Cardinality(TradesIn(week) \cap ByUser(u))]]

-----------------------------------------------------------------------------
(* computeLeaderboard: the trades of the week (none: nothing is done), the *)
(* settlements, an upsert per trader, then the ranks of all entries of the *)
(* week, then the volumes of the markets.  An error ends it.               *)
Calendar == UNCHANGED <<jan1, today, sent, verdict, events>>

ReadTrades ==
  LET week == WeekOf(today)
      rows == {sent[i].user : i \in TradesIn(week)}
  IN  /\ cron.pc = "idle"
      /\ rows # {}
      /\ cron' = [Resting EXCEPT !.pc = "settlements", !.week = week, !.todo = rows,
                    !.volume = [u \in Traders |-> Kes(TradesIn(week) \cap ByUser(u))]]
      /\ UNCHANGED <<board, marketVolume>> /\ Calendar

ReadSettlements ==
  /\ cron.pc = "settlements"
  /\ cron' = [cron EXCEPT !.pc = "entries",
                 !.pnl  = [u \in Traders |-> Profit(SettledIn(cron.week, u))],
                 !.wins = [u \in Traders |-> Wins(SettledIn(cron.week, u))]]
  /\ UNCHANGED <<board, marketVolume>> /\ Calendar

UpsertEntry ==
  /\ cron.pc = "entries"
  /\ \E u \in cron.todo :
       /\ board' = [board EXCEPT ![cron.week][u] =
                      [exists |-> TRUE, pnl |-> cron.pnl[u],
                       volume |-> cron.volume[u], wins |-> cron.wins[u],
                       rank |-> board[cron.week][u].rank]]
       /\ cron' = [cron EXCEPT !.todo = cron.todo \ {u},
                               !.pc = IF cron.todo = {u} THEN "ranks" ELSE "entries"]
  /\ UNCHANGED marketVolume /\ Calendar

Before(a, b) == a.pnl > b.pnl \/ (a.pnl = b.pnl /\ a.volume > b.volume)

AssignRanks ==
  LET entries == {u \in Traders : board[cron.week][u].exists}
      of(u)   == board[cron.week][u]
  IN  /\ cron.pc = "ranks"
      /\ \E rank \in Bijection(entries, 1..Cardinality(entries)) :
           /\ \A u, v \in entries : Before(of(u), of(v)) => rank[u] < rank[v]
           /\ board' = [board EXCEPT ![cron.week] =
                [u \in Traders |-> IF u \in entries THEN [of(u) EXCEPT !.rank = rank[u]]
                                                    ELSE of(u)]]
      /\ cron' = [cron EXCEPT !.pc = "volumes"]
      /\ UNCHANGED marketVolume /\ Calendar

computeMarketVolumes ==
  /\ cron.pc = "volumes"
  /\ marketVolume' = [marketVolume EXCEPT ![cron.week] =
       [m \in Markets |-> IF TradesIn(cron.week) \cap On(m) = {} THEN marketVolume[cron.week][m]
                          ELSE Kes(TradesIn(cron.week) \cap On(m))]]
  /\ cron' = [Resting EXCEPT !.week = cron.week, !.ranked = TRUE]
  /\ UNCHANGED board /\ Calendar

CronFails ==
  /\ cron.pc # "idle"
  /\ cron' = [Resting EXCEPT !.week = cron.week]
  /\ UNCHANGED <<board, marketVolume>> /\ Calendar

Next ==
  \/ NextDay
  \/ handleTradeConfirmed \/ handleMarketSettled \/ handleMarketResolved
  \/ ReadTrades \/ ReadSettlements \/ UpsertEntry \/ AssignRanks
  \/ computeMarketVolumes \/ CronFails

-----------------------------------------------------------------------------
(* The views of one trade or settlement agree with one another however     *)
(* messages are ordered and repeated: by market, by user and in total.     *)
(* What the payouts page lists is part of its totals, and all of it once   *)
(* every settled market has its earnings row.                              *)
ViewsAgree ==
  LET overview == getPlatformOverview(LastDay)
      payouts  == getPayoutsOverview
      users    == getUserSettlementsOverview
      listed   == SumOver([m \in marketEarnings |-> payouts.markets[m].payouts], marketEarnings)
  IN  /\ overview.totalVolume = SumOver([m \in Markets |-> getMarketStats(m).totalVolume], Markets)
      /\ overview.totalVolume = SumOver([u \in Traders |-> getUserStats(u).totalVolume], Traders)
      /\ overview.recentVolume = SumOver(overview.dailyVolume, Days)
      /\ payouts.totalPayouts = SumOver([u \in DOMAIN users.users |-> users.users[u].won],
                                        DOMAIN users.users)
      /\ users.netUserLoss = -SumOver([u \in Traders |-> getUserStats(u).totalPnl], Traders)
      /\ listed <= payouts.totalPayouts
      /\ (\A m \in Markets : SettlementsIn(m) # {} => m \in marketEarnings)
           => listed = payouts.totalPayouts

(* A trader with one position in a market has won there exactly if the     *)
(* verdict says so, whichever message came first and however often; the    *)
(* cost counts no trade twice.  (With positions on both sides the first    *)
(* message decides, and the other is ignored; and trades that are recorded *)
(* after the settlement are missing from its cost, although the comment on *)
(* handleMarketSettled rules them out.)                                    *)
SettledOnce ==
  \A p \in Traders \X Markets :
    LET held == {i \in DOMAIN sent : sent[i].user = p[1] /\ sent[i].market = p[2]}
        row  == settlementEvent[p]
    IN  row.exists =>
          /\ row.cost <= Kes(held)
          /\ \A o \in Outcomes : {sent[i].outcome : i \in held} = {o} =>
               row.won = (o = verdict[p[2]])

(* After a run of the cron job that went through, the ranks of its week    *)
(* are 1 to n by profit, then volume, also when earlier runs failed half   *)
(* way; and a trader of today is on the live leaderboard at once, as its   *)
(* comment says, except on a Sunday: the week is counted from Sunday, its  *)
(* window starts on Monday.                                                *)
BoardIsRanked ==
  /\ cron.ranked =>
       LET week == board[cron.week]
           on   == {u \in Traders : week[u].exists}
       IN  /\ {week[u].rank : u \in on} = 1..Cardinality(on)
           /\ \A u, v \in on : week[u].rank < week[v].rank => week[u].pnl >= week[v].pnl
  /\ (jan1 + today) % 7 # 0 =>
       \A i \in Recorded : tradeEvent[i] = today =>
         sent[i].user \in DOMAIN getLeaderboard(WeekOf(today))
=============================================================================
