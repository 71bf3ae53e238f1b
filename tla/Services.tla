------------------------------ MODULE Services ------------------------------
(***************************************************************************)
(* The services around the money: accounts, analytics, comments,           *)
(* notifications and markets.  They share no state, and what they receive  *)
(* from one another and from the rest is in the module of each; so a       *)
(* behaviour lets one of them be busy while the others rest in an initial  *)
(* state.                                                                  *)
(***************************************************************************)
EXTENDS Integers, Sequences, FiniteSets

CONSTANTS
  Handlers, MaxCalls, Scenes,                               \* Accounts
  Traders, Markets, Published, LastDay, FirstWeekdays, PayoutKes,  \* Analytics
  Authors, Boards, Posters, MaxComments, LastTick,          \* Comments
  Happenings, Recipients, Devices, Sockets, MaxRows, MaxMoves,     \* Notifications
  Binary, Multi, Options, Admins, Crons, MaxRequests, Faults       \* Market

VARIABLES
  busy,
  scene, concurrent, publishing, user, codes, sessions, registered, profile, call, calls,
  jan1, today, sent, verdict, tradeEvent, settlementEvent, marketEarnings, board,
  marketVolume, cron,
  overlapping, tick, comments, posting,
  faults, notifications, worker, feedItem, acked, deviceToken, owners, pushed, room,
  shown, moves,
  status, outcome, isWinner, expired, admin, closer, events, requests, raced

Acc == INSTANCE Accounts
Ana == INSTANCE Analytics
Com == INSTANCE Comments
Not == INSTANCE Notifications
Mkt == INSTANCE Market WITH cron <- closer

ASSUME ServicesAssumption ==
  /\ Acc!AccountsAssumption /\ Ana!AnalyticsAssumption
  /\ Com!CommentsAssumption /\ Not!NotificationsAssumption
  /\ Mkt!MarketAssumption

accounts  == <<scene, concurrent, publishing, user, codes, sessions, registered, profile, call,
               calls>>
analytics == <<jan1, today, sent, verdict, tradeEvent, settlementEvent, marketEarnings, board,
               marketVolume, cron>>
threads   == <<overlapping, tick, comments, posting>>
bells     == <<faults, notifications, worker, feedItem, acked, deviceToken, owners, pushed,
               room, shown, moves>>
listings  == <<status, outcome, isWinner, expired, admin, closer, events, requests, raced>>
vars      == <<busy, accounts, analytics, threads, bells, listings>>

Parts == {"accounts", "analytics", "comments", "notifications", "market"}

TypeOK ==
  /\ busy \in Parts
  /\ Acc!TypeOK /\ Ana!TypeOK /\ Com!TypeOK /\ Not!TypeOK /\ Mkt!TypeOK

Init ==
  /\ busy \in Parts
  /\ Acc!Init /\ Ana!Init /\ Com!Init /\ Not!Init /\ Mkt!Init
  /\ busy # "accounts" =>
       user.exists /\ publishing /\ ~concurrent /\ scene = CHOOSE s \in Scenes : TRUE
  /\ busy # "analytics" =>
       /\ [sent |-> sent, verdict |-> verdict] = CHOOSE p \in Published : TRUE
       /\ jan1 = CHOOSE d \in FirstWeekdays : TRUE
  /\ busy # "comments" => ~overlapping
  /\ busy # "notifications" => faults = {}

AccountsStep ==
  busy = "accounts" /\ Acc!Next /\ UNCHANGED <<busy, analytics, threads, bells, listings>>

AnalyticsStep ==
  busy = "analytics" /\ Ana!Next /\ UNCHANGED <<busy, accounts, threads, bells, listings>>

CommentsStep ==
  busy = "comments" /\ Com!Next /\ UNCHANGED <<busy, accounts, analytics, bells, listings>>

NotificationsStep ==
  busy = "notifications" /\ Not!Next /\ UNCHANGED <<busy, accounts, analytics, threads, listings>>

MarketStep ==
  busy = "market" /\ Mkt!Next /\ UNCHANGED <<busy, accounts, analytics, threads, bells>>

Next == AccountsStep \/ AnalyticsStep \/ CommentsStep \/ NotificationsStep \/ MarketStep

Spec == Init /\ [][Next]_vars

(* The event loop of the auth service runs its handlers, and the broker    *)
(* delivers the registrations.  The handlers of the market service go on,  *)
(* and its scheduler starts the cron job every minute.                     *)
OutsideAccounts == UNCHANGED <<busy, analytics, threads, bells, listings>>
OutsideMarket   == UNCHANGED <<busy, accounts, analytics, threads, bells>>

FairSpec ==
  /\ Spec
  /\ WF_vars(Acc!CreateProfile /\ OutsideAccounts)
  /\ \A h \in Handlers : WF_vars(Acc!Handle(h) /\ OutsideAccounts)
  /\ \A a \in Admins : WF_vars(Mkt!Serve(a) /\ OutsideMarket)
  /\ \A j \in Crons : WF_vars(Mkt!AutoClose(j) /\ OutsideMarket)

-----------------------------------------------------------------------------
(* One-time codes: what is verified or changed rests on an accepted code,  *)
(* and in turn a code is accepted once and only the newest one is valid.   *)
CodesAreOneTime == Acc!CodesAreOneTime

(* Sessions: in turn none outlives the password it rests on, and a refresh *)
(* token has one successor.                                                *)
SessionsFollowPassword == Acc!SessionsFollowPassword

(* KYC: no token carries more than the granted tier, and in turn exactly   *)
(* the profiles with waiting documents are on the list of the reviewers.   *)
TiersFollowReviews == Acc!TokensNeverOverPermit /\ Acc!PendingIsListed

(* A registered user gets a profile if Kafka accepts the messages.         *)
RegisteredHasProfile == Acc!RegisteredHasProfile

(* Analytics: the views agree with one another, a settlement is recorded   *)
(* once, and the leaderboard is ranked, in whatever order the groups get   *)
(* to the messages.  (At rest the tables are empty.)                       *)
AnalyticsAgree ==
  busy = "analytics" => Ana!ViewsAgree /\ Ana!SettledOnce /\ Ana!BoardIsRanked

(* Comments: threads stay in their market and one level deep, and posting  *)
(* is limited.                                                             *)
ThreadsAreOrderly == Com!ThreadsAreOrderly

(* Notifications: everyone is told their own affairs, all of them, and     *)
(* without faults once.                                                    *)
ToldTheirOwnOnce == Not!ToldTheirOwn /\ Not!ToldOfEverything

(* Markets: a market has one verdict and one winner where admins and the   *)
(* cron job did not race on it; verdicts stay; and after its deadline a    *)
(* market leaves the list of active ones.                                  *)
OneVerdictOneWinner == Mkt!OneVerdictOneWinner
VerdictIsFinal      == Mkt!VerdictIsFinal
ExpiredIsClosed     == Mkt!ExpiredIsClosed
=============================================================================
